---- MODULE Spec2Model ----
(***************************************************************************)
(* A model of the core of lonesomestranger/ai-personality:                 *)
(*   - the per-thread durable store        (src/src/core/data_storage.py)  *)
(*   - the history collector that saves it (src/src/core/data_collector.py)*)
(*   - the scoring engine's rank           (src/src/core/elo_calculator.py)*)
(*   - the interaction engine              (src/src/core/interaction.py)   *)
(*                                                                         *)
(* The program runs on one cooperative event loop.  A coroutine position   *)
(* (pc) is recorded for every await at which the loop may run another      *)
(* task: network calls, sleeps, and the acquisition of asyncio locks and   *)
(* semaphores.  Code between two such awaits is one atomic action.  The    *)
(* body of every file-lock section in data_storage.py contains no await,   *)
(* so a section is one action and the lock itself needs no variable.       *)
(***************************************************************************)
EXTENDS Integers, Sequences, FiniteSets, TLC

(***************************************************************************)
(* Bounds of the model.                                                    *)
(***************************************************************************)
MaxMsgId == 3

\* the threads: a one-to-one thread and a group
Chats == {1, 2}
MsgIds == 1..MaxMsgId
\* the store tasks that may be in flight at the same time
StoreTasks == {1, 2}
\* the threads the store tasks of the model work on (threads are independent:
\* every document has its own path and its own lock)
StoreChats == {1}

Titles == {"A", "B"}

NoChat == 0
NoMsg == 0

(***************************************************************************)
(* Messages as the transport holds them.  A message id has one content;    *)
(* the content kinds cycle with the id so that every kind occurs:          *)
(* text only, photo only, text with photo, video only.                     *)
(***************************************************************************)
STATS_KEYS == {"text", "photo", "video", "voice", "other_media"}

MsgHasText(id) == id % 4 \in {1, 3}
MsgHasPhoto(id) == id % 4 \in {2, 3}
MsgHasVideo(id) == id % 4 = 0

\* data_collector._format_message_data: the per-message stats
FormatStats(id) ==
    [k \in STATS_KEYS |->
        IF k = "text" THEN (IF MsgHasText(id) THEN 1 ELSE 0)
        ELSE IF k = "photo" THEN (IF MsgHasPhoto(id) THEN 1 ELSE 0)
        ELSE IF k = "video" THEN (IF MsgHasVideo(id) THEN 1 ELSE 0)
        ELSE 0]

\* data_collector._format_message_data: should_store (no forwards are modelled)
ShouldStore(id) == MsgHasText(id) \/ MsgHasPhoto(id)

(***************************************************************************)
(* The persisted document of a thread.                                     *)
(***************************************************************************)
ZeroStats == [k \in STATS_KEYS |-> 0]

AbsentFile == [kind |-> "absent", title |-> "none", stats |-> ZeroStats, messages |-> << >>]

\* a document that json.load cannot parse (a write cut short by a crash)
CorruptFile == [kind |-> "corrupt", title |-> "none", stats |-> ZeroStats, messages |-> << >>]

\* the default structure the store builds for a thread without a document
DefaultRecord(title) ==
    [kind |-> "ok", title |-> title, stats |-> ZeroStats, messages |-> << >>]

VARIABLES
    file,       \* file[c]: the persisted document of thread c
    st,         \* st[t]: the store task t: its position and its locals
    now,        \* the clock, in hours
    det,        \* _ai_detection_counters (0: no entry)
    cool,       \* _cooldown_until (NoTime: no entry)
    grp,        \* _group_message_counters (0: no entry)
    permits,    \* the value of _response_semaphore
    others,     \* permits held by handlers of threads outside Chats
    instr,      \* the settings hold persona base instructions
    hs,         \* hs[h]: the handler task h of an inbound event
    last,       \* what the latest step did, when it ignored or dropped an event,
                \* started a cooldown, cleared an elapsed one or sent a message
    lastInit,   \* _last_initiated_time (NoTime: no entry)
    sch,        \* the initiation loop: its position and the thread it works on
    rk,         \* a call of get_top_chat_for_initiation: arguments and result
    cache,      \* EloCalculator._elo_cache (NoScore: no entry)
    excluded,   \* the setting excluded_chats
    running,    \* _is_running and the setting persona_active
    stop,       \* the position of a call of stop_persona
    el,         \* a call of calculate_elo: its inputs and its result
    sd,         \* a call of _send_message_with_delay: its position and its result
    ai,         \* a call of AIModule.generate_response: its position and its result
    lp          \* the initiation loop tasks, _initiation_task, _me_id and the
                \* calls of stop_persona that are suspended

storeVars == <<file, st>>
engineVars == <<now, det, cool, grp, permits, others, instr, hs, last>>
schedVars == <<lastInit, sch, cache>>
rankVars == <<rk, el>>
ctlVars == <<excluded, running, stop>>
sendVars == <<sd>>
genVars == <<ai>>
loopVars == <<lp>>
vars == <<file, st, now, det, cool, grp, permits, others, instr, hs, last, lastInit, sch, rk,
          cache, excluded, running, stop, el, sd, ai, lp>>

StoreOnly == UNCHANGED <<engineVars, schedVars, rankVars, ctlVars, sendVars, genVars, loopVars>>
EngineOnly == UNCHANGED <<storeVars, schedVars, rankVars, ctlVars, sendVars, genVars, loopVars>>

\* data_collector._format_message_data: the stored message_data; the message
\* is stored in the hour it was sent
FormatMessageData(id, sender) ==
    [message_id |-> id, sender |-> sender, timestamp |-> now,
     text |-> MsgHasText(id), photo_attached |-> MsgHasPhoto(id)]

\* interaction._send_message_with_delay lines 691-701: the message_data of a
\* sent message
SentMessageData(id) ==
    [message_id |-> id, sender |-> "You", timestamp |-> now,
     text |-> TRUE, photo_attached |-> FALSE]

NoMessage ==
    [message_id |-> NoMsg, sender |-> "none", timestamp |-> 0,
     text |-> FALSE, photo_attached |-> FALSE]

IdleTask ==
    [pc |-> "idle", chat |-> NoChat, msg |-> NoMessage, hist |-> AbsentFile,
     title |-> "none", fresh |-> {}]

(***************************************************************************)
(* data_storage.append_message_to_history                                  *)
(***************************************************************************)
\* a slip: only the newest stored message is compared
HasMessageIdNewest(messages, id) ==
    messages # << >> /\ messages[Len(messages)].message_id = id

\* line 284: any(m.get("message_id") == msg_id for m in messages)
HasMessageId(messages, id) ==
    \E i \in 1..Len(messages) : messages[i].message_id = id

\* lines 235-254: the read inside the first lock section
AppendRead(c) ==
    IF file[c].kind = "ok" THEN file[c]
    ELSE IF file[c].kind = "absent" THEN DefaultRecord("Unknown")
    ELSE DefaultRecord("Corrupted")

\* a slip: the text counter is raised for every appended message
AppendStatsEveryMessage(stats, m) ==
    [stats EXCEPT !["text"] = @ + 1,
                  !["photo"] = IF m.photo_attached THEN @ + 1 ELSE @]

\* lines 292-295: the counters touched by an append
AppendStats(stats, m) ==
    [stats EXCEPT !["text"] = IF m.text THEN @ + 1 ELSE @,
                  !["photo"] = IF m.photo_attached THEN @ + 1 ELSE @]

\* lines 290-297: the in-memory modification
AppendToRecord(rec, m) ==
    [rec EXCEPT !.messages = Append(@, m), !.stats = AppendStats(@, m)]

\* The call: create_task(append_message_to_history(...)); the task has not run yet.
AppendCall(t, c, m) ==
    /\ st[t].pc = "idle"
    /\ st' = [st EXCEPT ![t] = [IdleTask EXCEPT !.pc = "a_load", !.chat = c, !.msg = m]]
    /\ UNCHANGED file
    /\ StoreOnly

\* lines 233-300: read under the load lock, check for the id, modify in memory.
AppendLoad(t) ==
    /\ st[t].pc = "a_load"
    /\ LET c == st[t].chat
           rec == AppendRead(c)
           m == st[t].msg
       IN IF m.message_id > 0 /\ HasMessageId(rec.messages, m.message_id)
          THEN st' = [st EXCEPT ![t] = IdleTask]
          ELSE st' = [st EXCEPT ![t].pc = "a_write", ![t].hist = AppendToRecord(rec, m)]
    /\ UNCHANGED file
    /\ StoreOnly

\* lines 302-311: write the modified copy under the write lock.
AppendWrite(t) ==
    /\ st[t].pc = "a_write"
    /\ file' = [file EXCEPT ![st[t].chat] = st[t].hist]
    /\ st' = [st EXCEPT ![t] = IdleTask]
    /\ StoreOnly

\* lines 210-323 when the task is not suspended between its two lock
\* sections (the lock is free, so acquiring it does not yield): the read,
\* the check for the id, the modification and the write in one piece
AppendUnsuspended(c, m) ==
    /\ ~HasMessageId(AppendRead(c).messages, m.message_id)
    /\ file' = [file EXCEPT ![c] = AppendToRecord(AppendRead(c), m)]
    /\ UNCHANGED st
    /\ StoreOnly

(***************************************************************************)
(* data_storage.load_chat_history, save_chat_history, update_chat_title    *)
(***************************************************************************)
\* a slip: the default record for an unreadable document has the title of
\* a thread without a document
LoadChatHistoryUnmarked(c) ==
    IF file[c].kind = "ok" THEN file[c]
    ELSE DefaultRecord("Unknown")

\* load_chat_history: the record it returns (the file is left as it is).
LoadChatHistory(c) ==
    IF file[c].kind = "ok" THEN file[c]
    ELSE IF file[c].kind = "absent" THEN DefaultRecord("Unknown")
    ELSE DefaultRecord("ErrorLoading")

\* a caller awaits load_chat_history(c): the call waits for the file lock
LoadCall(t, c) ==
    /\ st[t].pc = "idle"
    /\ st' = [st EXCEPT ![t] = [IdleTask EXCEPT !.pc = "l_load", !.chat = c]]
    /\ UNCHANGED file
    /\ StoreOnly

\* load_chat_history lines 42-102: the lock section; every path returns a
\* record
LoadReturn(t) ==
    /\ st[t].pc = "l_load"
    /\ st' = [st EXCEPT ![t].pc = "l_done", ![t].hist = LoadChatHistory(st[t].chat)]
    /\ UNCHANGED file
    /\ StoreOnly

\* the caller is done with the record
LoadDone(t) ==
    /\ st[t].pc = "l_done"
    /\ st' = [st EXCEPT ![t] = IdleTask]
    /\ UNCHANGED file
    /\ StoreOnly

\* a slip: the title is written into a fresh structure
TitleBaseFresh(c) == DefaultRecord("none")

\* update_chat_title lines 141-169: the record the title is merged into
TitleBase(c) ==
    IF file[c].kind = "ok" THEN file[c] ELSE DefaultRecord("none")

\* update_chat_title: one lock section; writes only when the title differs.
UpdateTitleEffect(c, title) ==
    IF TitleBase(c).title # title
    THEN file' = [file EXCEPT ![c] = [TitleBase(c) EXCEPT !.title = title]]
    ELSE UNCHANGED file

\* A title update called by the administrative surface.
UpdateChatTitle(c, title) ==
    /\ UpdateTitleEffect(c, title)
    /\ UNCHANGED st
    /\ StoreOnly

(***************************************************************************)
(* data_collector.collect_history_for_chat                                 *)
(***************************************************************************)
RECURSIVE SetMax(_)
SetMax(S) ==
    IF S = {} THEN 0
    ELSE LET x == CHOOSE y \in S : TRUE
             r == SetMax(S \ {x})
         IN IF x > r THEN x ELSE r

MessageIdsOf(messages) == {messages[i].message_id : i \in 1..Len(messages)}

\* line 401: messages.sort(key=message_id), a stable sort; insertion of one
\* message after the last one whose id is not larger.
RECURSIVE InsertSorted(_, _)
InsertSorted(messages, m) ==
    IF messages = << >> THEN <<m>>
    ELSE IF messages[Len(messages)].message_id <= m.message_id
         THEN Append(messages, m)
         ELSE Append(InsertSorted(SubSeq(messages, 1, Len(messages) - 1), m),
                     messages[Len(messages)])

RECURSIVE SortById(_)
SortById(messages) ==
    IF messages = << >> THEN << >>
    ELSE InsertSorted(SortById(SubSeq(messages, 1, Len(messages) - 1)),
                      messages[Len(messages)])

\* lines 400-401: extend by the new stored messages (ascending), then sort
RECURSIVE ExtendWith(_, _)
ExtendWith(messages, ids) ==
    IF ids = {} THEN messages
    ELSE LET lo == CHOOSE x \in ids : \A y \in ids : x <= y
         IN ExtendWith(Append(messages, FormatMessageData(lo, "Contact")), ids \ {lo})

\* lines 318-320: batch_stats summed over the downloaded messages
RECURSIVE BatchStats(_)
BatchStats(ids) ==
    IF ids = {} THEN ZeroStats
    ELSE LET x == CHOOSE y \in ids : TRUE
             r == BatchStats(ids \ {x})
         IN [k \in STATS_KEYS |-> r[k] + FormatStats(x)[k]]

\* lines 399-407: the record the collector is about to save
CollectMerge(rec, ids) ==
    LET stored == {x \in ids : ShouldStore(x)}
    IN IF stored = {} THEN rec
       ELSE [rec EXCEPT
               !.messages = SortById(ExtendWith(@, stored)),
               !.stats = [k \in STATS_KEYS |-> @[k] + BatchStats(ids)[k]]]

\* The collection is started by the administrative surface for thread c,
\* whose title the transport reports as `title`.
CollectCall(t, c, title) ==
    /\ st[t].pc = "idle"
    /\ st' = [st EXCEPT ![t] = [IdleTask EXCEPT !.pc = "c_load", !.chat = c, !.title = title]]
    /\ UNCHANGED file
    /\ StoreOnly

\* lines 249-270: load; when the title differs, go on to update_chat_title.
CollectLoad(t) ==
    /\ st[t].pc = "c_load"
    /\ LET rec == LoadChatHistory(st[t].chat)
       IN st' = [st EXCEPT ![t].hist = rec,
                           ![t].pc = IF rec.title # st[t].title THEN "c_title" ELSE "c_iter"]
    /\ UNCHANGED file
    /\ StoreOnly

\* lines 268-270: update_chat_title, then the local copy takes the title.
CollectTitle(t) ==
    /\ st[t].pc = "c_title"
    /\ UpdateTitleEffect(st[t].chat, st[t].title)
    /\ st' = [st EXCEPT ![t].hist.title = st[t].title, ![t].pc = "c_iter"]
    /\ StoreOnly

\* lines 283-329: the transport returns the messages `ids`, all newer than
\* the last known id; they are formatted and counted.
CollectIter(t, ids) ==
    /\ st[t].pc = "c_iter"
    /\ \A x \in ids : x > SetMax(MessageIdsOf(st[t].hist.messages))
    /\ st' = [st EXCEPT ![t].fresh = ids, ![t].pc = "c_save"]
    /\ UNCHANGED file
    /\ StoreOnly

\* lines 399-422: merge, then save_chat_history (one lock section, full overwrite).
CollectSave(t) ==
    /\ st[t].pc = "c_save"
    /\ file' = [file EXCEPT ![st[t].chat] = CollectMerge(st[t].hist, st[t].fresh)]
    /\ st' = [st EXCEPT ![t] = IdleTask]
    /\ StoreOnly

(***************************************************************************)
(* interaction.InteractionModule: the handling of inbound events while the *)
(* persona is running and active.                                          *)
(***************************************************************************)
MAX_CONCURRENT_RESPONSES == 5
AI_DETECTION_ATTEMPTS == 3

\* Settings of the model: group_reply_frequency_n and the bounds of
\* ai_detection_cooldown_hours.
GroupReplyFrequency == 2
CooldownMinHours == 1
CooldownMaxHours == 2

MaxTime == 2
\* the model stops counting the messages of a group at this value
MaxGroupCounter == 3

\* the handler tasks that may be in flight at the same time
Handlers == {1, 2}
NoTime == -1

\* isinstance(event.chat, (Chat, Channel)): the even threads are groups
IsGroup(c) == c % 2 = 0

\* An inbound message: "kw" is text that contains one of
\* AI_DETECTION_KEYWORDS, "plain" is other text, "photo" is a photo without
\* text, "other" has neither text nor photo.
Events == {"kw", "plain", "photo", "other"}

HasText(ev) == ev \in {"kw", "plain"}
HasPhoto(ev) == ev = "photo"

\* _check_ai_detection line 351: any(keyword in text_lower for keyword in ...)
Detected(ev) == ev = "kw"

DoneHandler ==
    [pc |-> "done", chat |-> NoChat, content |-> FALSE, photo |-> FALSE,
     route |-> "none", gens |-> 0, sends |-> 0, permit |-> FALSE,
     reply |-> "none"]

\* What became of an event: the thread, the decision taken, the detection
\* hits counted with it, and whether an elapsed cooldown was cleared first.
Outcome(c, what, hit, expired) ==
    [chat |-> c, what |-> what, hit |-> hit, expired |-> expired]

NoEvent == Outcome(NoChat, "none", 0, FALSE)

\* a step that decides about no inbound event
Forget == last' = NoEvent

\* a slip: the last hour of a cooldown is not honoured
SuppressedShort(c) == cool[c] # NoTime /\ now + 1 < cool[c]

\* lines 171-172: the thread is on cooldown
Suppressed(c) == cool[c] # NoTime /\ now < cool[c]

\* lines 178-181: the cooldown of the thread has run out
CooldownExpired(c) == cool[c] # NoTime /\ now >= cool[c]

\* a slip: the hits of the last cooldown are kept when it has run out
DetectionBaseKept(c) == det[c]

\* lines 178-181 and 354: the hits counted so far, none after an elapsed cooldown
DetectionBase(c) == IF CooldownExpired(c) THEN 0 ELSE det[c]

\* a slip: the threshold is compared with < instead of <=
ShouldDeflectStrict(count) == count < AI_DETECTION_ATTEMPTS

\* line 361: the deflection branch of _check_ai_detection
ShouldDeflect(count) == count <= AI_DETECTION_ATTEMPTS

\* lines 215-217: should_reply_group
ShouldReplyGroup(counter) == counter >= GroupReplyFrequency

\* _handle_new_message lines 140-200 with _check_ai_detection lines 349-427:
\* everything up to the first await.  d is the cooldown drawn at line 421.
HandleNewMessage(h, c, ev, d) ==
    /\ hs[h].pc = "done"
    /\ running
    /\ c \notin excluded
    /\ LET fresh == [DoneHandler EXCEPT !.chat = c, !.photo = HasPhoto(ev),
                                        !.content = HasText(ev) \/ HasPhoto(ev)]
       IN IF Suppressed(c)
          THEN /\ last' = Outcome(c, "ignored", 0, FALSE)
               /\ UNCHANGED <<det, cool, hs>>
          ELSE LET exp == CooldownExpired(c)
                   det1 == DetectionBase(c)
                   f1 == fresh
               IN IF HasText(ev) /\ Detected(ev)
                  THEN LET count == det1 + 1
                       IN /\ det' = [det EXCEPT ![c] = count]
                          /\ IF ShouldDeflect(count)
                             THEN /\ cool' = [cool EXCEPT ![c] = NoTime]
                                  /\ last' = IF exp THEN Outcome(c, "deflect", count, exp) ELSE NoEvent
                                  /\ hs' = [hs EXCEPT ![h] =
                                        IF instr
                                        THEN [f1 EXCEPT !.route = "deflect",
                                                        !.pc = "d_gen", !.gens = 1]
                                        ELSE [f1 EXCEPT !.route = "deflect",
                                                        !.pc = "d_send", !.sends = 1,
                                                        !.reply = "canned"]]
                             ELSE /\ cool' = [cool EXCEPT ![c] = now + d]
                                  /\ last' = Outcome(c, "suppress", count, exp)
                                  /\ hs' = [hs EXCEPT ![h] =
                                        [f1 EXCEPT !.route = "suppress", !.pc = "d_notify"]]
                  ELSE /\ det' = [det EXCEPT ![c] = det1]
                       /\ cool' = [cool EXCEPT ![c] = NoTime]
                       /\ last' = IF exp THEN Outcome(c, "ordinary", 0, exp) ELSE NoEvent
                       /\ hs' = [hs EXCEPT ![h] = [f1 EXCEPT !.route = "ordinary",
                                                             !.pc = "acquire"]]
    /\ UNCHANGED <<now, grp, permits, others, instr>>
    /\ EngineOnly

\* the sender of an inbound event: a contact, the account itself, or none
Senders == {"Contact", "You", "none"}

\* lines 150-167: the persona is not running or not active, the event has no
\* sender or is the account's own message, or the thread is excluded (with
\* the persona running _me_id is set, see start_persona)
Returned(c, sender) == ~running \/ sender # "Contact" \/ c \in excluded

\* a slip: an expired cooldown is cleared before the tests of lines 150-167
EarlyReturnAfterExpiry(c) ==
    /\ last' = Outcome(c, "returned", 0, FALSE)
    /\ det' = [det EXCEPT ![c] = DetectionBase(c)]
    /\ cool' = [cool EXCEPT ![c] = IF CooldownExpired(c) THEN NoTime ELSE @]
    /\ UNCHANGED <<now, grp, permits, others, instr, hs>>

\* lines 150-167: the handler returns; nothing but the log is touched
EarlyReturn(c) ==
    /\ last' = Outcome(c, "returned", 0, FALSE)
    /\ UNCHANGED <<now, det, cool, grp, permits, others, instr, hs>>

\* _handle_new_message lines 140-200 for an event of any sender, whatever
\* the state of the persona
OnNewMessage(h, c, ev, d, sender) ==
    /\ hs[h].pc = "done"
    /\ IF Returned(c, sender)
       THEN EarlyReturn(c) /\ EngineOnly
       ELSE HandleNewMessage(h, c, ev, d)

\* _check_ai_detection lines 376-392: generate_response has returned text
\* (ok) or null; the text or a canned reply goes to _send_message_with_delay.
DeflectGenerated(h, ok) ==
    /\ hs[h].pc = "d_gen"
    /\ hs' = [hs EXCEPT ![h].pc = "d_send", ![h].sends = @ + 1,
                        ![h].reply = IF ok THEN "generated" ELSE "canned"]
    /\ UNCHANGED <<now, det, cool, grp, permits, others, instr>>
    /\ Forget
    /\ EngineOnly

\* _send_message_with_delay: the target cannot be resolved (no send), the
\* transport refuses the message, or the message is sent.
SendOutcomes == {"unresolved", "failed", "sent"}

\* lines 691-708: a message that was sent is handed to a background save task
Delivered(c, outcome) ==
    last' = IF outcome = "sent" THEN Outcome(c, "sent", 0, FALSE) ELSE NoEvent

\* _send_message_with_delay lines 633-713 called by _check_ai_detection.
DeflectSent(h, outcome) ==
    /\ hs[h].pc = "d_send"
    /\ hs' = [hs EXCEPT ![h] = DoneHandler]
    /\ Delivered(hs[h].chat, outcome)
    /\ UNCHANGED <<now, det, cool, grp, permits, others, instr>>
    /\ EngineOnly

\* _check_ai_detection lines 429-478: the operator notification (get_entity,
\* bot.send_message; failures are caught).
NotifyOperator(h) ==
    /\ hs[h].pc = "d_notify"
    /\ hs' = [hs EXCEPT ![h] = DoneHandler]
    /\ UNCHANGED <<now, det, cool, grp, permits, others, instr>>
    /\ Forget
    /\ EngineOnly

\* a slip: a photo without text gets no reply
ShouldReplyTextOnly(h) == hs[h].content /\ ~hs[h].photo

\* line 263: if message.text or message.photo
ShouldReplyPrivate(h) == hs[h].content

\* a slip: the block is entered whether or not a permit is free
PermitNotNeeded == TRUE

\* line 206: async with self._response_semaphore is entered when the
\* semaphore has a permit
PermitFree == permits > 0

\* lines 234-258 and 274-297 with data_collector lines 108-112: the message
\* of the event has text or a photo, so that _format_message_data would
\* return a record for it (no forwards are modelled)
Storable(h) == hs[h].content

\* lines 205-300: the permit is taken; the group counter is raised; the event
\* either enters _generate_and_send_response (first await: load_chat_history)
\* or takes the store-only branch, which fails at self.data_collector (the
\* attribute is never set), is caught at lines 255 and 294, and gives the
\* permit back: no save task is created.  The event of a storable message
\* that takes this branch is recorded as the outcome "store".
AcquirePermit(h) ==
    /\ hs[h].pc = "acquire"
    /\ PermitFree
    /\ IsGroup(hs[h].chat) => grp[hs[h].chat] < MaxGroupCounter
    /\ LET c == hs[h].chat
           counter == grp[c] + 1
           replies == IF IsGroup(c) THEN ShouldReplyGroup(counter) ELSE ShouldReplyPrivate(h)
       IN /\ grp' = IF IsGroup(c) THEN [grp EXCEPT ![c] = counter] ELSE grp
          /\ IF replies
             THEN /\ hs' = [hs EXCEPT ![h].pc = "r_load", ![h].permit = TRUE,
                                      ![h].route = "reply"]
                  /\ permits' = permits - 1
             ELSE /\ hs' = [hs EXCEPT ![h] = DoneHandler]
                  /\ UNCHANGED permits
          /\ last' = IF ~replies /\ Storable(h) THEN Outcome(c, "store", 0, FALSE)
                     ELSE NoEvent
    /\ UNCHANGED <<now, det, cool, others, instr>>
    /\ EngineOnly

\* lines 226-229 and 267-269: _generate_and_send_response has returned; a
\* group's counter is reset; the semaphore block ends and the permit goes back.
ReplyReturned(h) ==
    /\ hs' = [hs EXCEPT ![h] = DoneHandler]
    /\ grp' = IF IsGroup(hs[h].chat) THEN [grp EXCEPT ![hs[h].chat] = 0] ELSE grp
    /\ permits' = permits + 1

\* _generate_and_send_response lines 497-549: the history is loaded; without
\* base instructions the function returns; a photo is downloaded first.
ReplyLoaded(h) ==
    /\ hs[h].pc = "r_load"
    /\ IF ~instr
       THEN ReplyReturned(h)
       ELSE /\ hs' = [hs EXCEPT ![h].pc = IF hs[h].photo THEN "r_photo" ELSE "r_gen",
                                ![h].gens = IF hs[h].photo THEN @ ELSE @ + 1]
            /\ UNCHANGED <<grp, permits>>
    /\ UNCHANGED <<now, det, cool, others, instr>>
    /\ Forget
    /\ EngineOnly

\* lines 522-549: download_media has returned the bytes (ok) or has failed.
PhotoDownloaded(h, ok) ==
    /\ hs[h].pc = "r_photo"
    /\ IF ok
       THEN /\ hs' = [hs EXCEPT ![h].pc = "r_gen", ![h].gens = @ + 1]
            /\ UNCHANGED <<grp, permits>>
       ELSE ReplyReturned(h)
    /\ UNCHANGED <<now, det, cool, others, instr>>
    /\ Forget
    /\ EngineOnly

\* lines 542-579: generate_response has returned text (ok) or null.
ReplyGenerated(h, ok) ==
    /\ hs[h].pc = "r_gen"
    /\ hs' = [hs EXCEPT ![h].pc = "r_send", ![h].sends = @ + 1,
                        ![h].reply = IF ok THEN "generated" ELSE "canned"]
    /\ UNCHANGED <<now, det, cool, grp, permits, others, instr>>
    /\ Forget
    /\ EngineOnly

\* _send_message_with_delay called by _generate_and_send_response.
ReplySent(h, outcome) ==
    /\ hs[h].pc = "r_send"
    /\ ReplyReturned(h)
    /\ Delivered(hs[h].chat, outcome)
    /\ UNCHANGED <<now, det, cool, others, instr>>
    /\ EngineOnly

\* a slip: the group counter is raised before the permit is taken
AcquireTimeoutCounted(h) ==
    /\ hs[h].pc = "acquire"
    /\ permits = 0
    /\ hs' = [hs EXCEPT ![h] = DoneHandler]
    /\ last' = Outcome(hs[h].chat, "dropped", 0, FALSE)
    /\ grp' = IF IsGroup(hs[h].chat) THEN [grp EXCEPT ![hs[h].chat] = @ + 1] ELSE grp
    /\ UNCHANGED <<now, det, cool, permits, others, instr>>
    /\ EngineOnly

\* lines 205 and 304-308: asyncio.timeout(60) runs out while the handler waits
\* for a permit.
AcquireTimeout(h) ==
    /\ hs[h].pc = "acquire"
    /\ permits = 0
    /\ hs' = [hs EXCEPT ![h] = DoneHandler]
    /\ last' = Outcome(hs[h].chat, "dropped", 0, FALSE)
    /\ UNCHANGED <<now, det, cool, grp, permits, others, instr>>
    /\ EngineOnly

\* lines 205 and 304-308: the same timer runs out inside the semaphore block;
\* the pending await is cancelled and the permit goes back.
ResponseTimeout(h) ==
    /\ hs[h].pc \in {"r_load", "r_photo", "r_gen", "r_send"}
    /\ hs' = [hs EXCEPT ![h] = DoneHandler]
    /\ permits' = permits + 1
    /\ UNCHANGED <<now, det, cool, grp, others, instr>>
    /\ Forget
    /\ EngineOnly

\* a slip: the permit of a handler that raised is not given back
PermitsKeptOnRaise == permits

\* line 206: async with releases the semaphore when its block is left,
\* also by an exception
PermitsAfterRaise == permits + 1

\* An await of the handler raises an Exception.  Inside _check_ai_detection
\* (lines 372-392) nothing catches it: it is caught at lines 194-198 and the
\* handler goes on to the semaphore block with the detection count already
\* raised.  Inside _generate_and_send_response it is caught at lines 590-601,
\* the function returns, a group's counter is reset (line 229) and the
\* semaphore block ends.
HandlerRaised(h) ==
    /\ hs[h].pc \in {"d_gen", "d_send", "r_load", "r_gen", "r_send"}
    /\ IF hs[h].pc \in {"d_gen", "d_send"}
       THEN /\ hs' = [hs EXCEPT ![h].pc = "acquire", ![h].route = "ordinary"]
            /\ UNCHANGED <<grp, permits>>
       ELSE /\ hs' = [hs EXCEPT ![h] = DoneHandler]
            /\ grp' = IF IsGroup(hs[h].chat) THEN [grp EXCEPT ![hs[h].chat] = 0] ELSE grp
            /\ permits' = PermitsAfterRaise
    /\ last' = Outcome(hs[h].chat, "raised", 0, FALSE)
    /\ UNCHANGED <<now, det, cool, others, instr>>
    /\ EngineOnly

\* A handler of a thread outside Chats takes a permit for its reply ...
OtherAcquire ==
    /\ permits > 0
    /\ permits' = permits - 1
    /\ others' = others + 1
    /\ UNCHANGED <<now, det, cool, grp, instr, hs>>
    /\ Forget
    /\ EngineOnly

\* ... and gives it back.
OtherRelease ==
    /\ others > 0
    /\ permits' = permits + 1
    /\ others' = others - 1
    /\ UNCHANGED <<now, det, cool, grp, instr, hs>>
    /\ Forget
    /\ EngineOnly

\* An hour passes.
Tick ==
    /\ now < MaxTime
    /\ now' = now + 1
    /\ UNCHANGED <<det, cool, grp, permits, others, instr, hs>>
    /\ Forget
    /\ EngineOnly

(***************************************************************************)
(* elo_calculator.EloCalculator.get_top_chat_for_initiation                *)
(***************************************************************************)
MaxScore == 2
MaxCandidates == 3

\* the one-to-one threads the transport may list as candidates
PrivateChats == {1, 3, 5}
\* the values of calculate_elo (0.0 also when it has caught an exception,
\* lines 188-192); no term of the score is negative
Scores == 0..MaxScore
CandidateLists == UNION {[1..n -> PrivateChats] : n \in 0..MaxCandidates}


\* what asyncio.gather(..., return_exceptions=True) holds for a candidate: the
\* value of calculate_elo, or the exception the calculation raised
Failed == -1
Results == Scores \cup {Failed}

\* a slip: the result of a calculation that raised is kept as it is
ResultKept(result) == result

\* lines 212-219: isinstance(result, Exception) gives the score 0.0
ResultScore(result) == IF result = Failed THEN 0 ELSE result

IdleRank ==
    [pc |-> "idle", ids |-> << >>, results |-> [c \in PrivateChats |-> 0],
     elo |-> [c \in PrivateChats |-> 0], top |-> NoChat]

\* lines 204-219: the keys of the dict elo_scores, in insertion order
RECURSIVE DictKeys(_)
DictKeys(ids) ==
    IF ids = << >> THEN << >>
    ELSE LET front == DictKeys(SubSeq(ids, 1, Len(ids) - 1))
             x == ids[Len(ids)]
         IN IF \E i \in 1..Len(front) : front[i] = x THEN front ELSE Append(front, x)

\* a slip: a later key with the same score replaces the best one
RECURSIVE MaxKeyLast(_, _)
MaxKeyLast(keys, elo) ==
    IF Len(keys) = 1 THEN keys[1]
    ELSE LET best == MaxKeyLast(SubSeq(keys, 1, Len(keys) - 1), elo)
             x == keys[Len(keys)]
         IN IF elo[x] >= elo[best] THEN x ELSE best

\* line 225: max(elo_scores, key=elo_scores.get), the first key in iteration
\* order that has the largest value
RECURSIVE MaxKey(_, _)
MaxKey(keys, elo) ==
    IF Len(keys) = 1 THEN keys[1]
    ELSE LET best == MaxKey(SubSeq(keys, 1, Len(keys) - 1), elo)
             x == keys[Len(keys)]
         IN IF elo[x] > elo[best] THEN x ELSE best

\* lines 194-237; elo[c] is what calculate_elo returns for c
GetTopChatForInitiation(ids, elo) ==
    IF ids = << >> THEN NoChat
    ELSE LET top_chat_id == MaxKey(DictKeys(ids), elo)
         IN IF elo[top_chat_id] <= 0 THEN NoChat ELSE top_chat_id

RankOnly == UNCHANGED <<storeVars, engineVars, schedVars, ctlVars, sendVars, genVars, loopVars>>

\* the call, up to asyncio.gather (line 210)
RankCall(ids) ==
    /\ rk.pc = "idle"
    /\ rk' = [IdleRank EXCEPT !.pc = "gather", !.ids = ids]
    /\ UNCHANGED el
    /\ RankOnly

\* lines 210-237: the results have been gathered and turned into the scores
\* of elo_scores; the result is returned
RankGathered(results) ==
    /\ rk.pc = "gather"
    /\ LET elo == [c \in PrivateChats |-> ResultScore(results[c])]
       IN rk' = [rk EXCEPT !.pc = "returned", !.results = results, !.elo = elo,
                           !.top = GetTopChatForInitiation(rk.ids, elo)]
    /\ UNCHANGED el
    /\ RankOnly

\* the caller has taken the result
RankDone ==
    /\ rk.pc = "returned"
    /\ rk' = IdleRank
    /\ UNCHANGED el
    /\ RankOnly

(***************************************************************************)
(* elo_calculator.EloCalculator.calculate_elo.  Scores are fixed-point      *)
(* numbers: ScoreUnit units make 1.0.  The text of a stored message is     *)
(* modelled by the number of whole-word occurrences of the persona's       *)
(* interests in it.                                                        *)
(***************************************************************************)
ScoreUnit == 10000

NoScore == -1

EmptyCache == [c \in PrivateChats |-> NoScore]

\* the threads whose score is asked for
ScoredChats == {1}

\* a slip: the calculated score is not put into the cache
CacheKept(c, score) == cache

\* calculate_elo lines 178-179: self._elo_cache[chat_id] = final_elo
CacheStore(c, score) == [cache EXCEPT ![c] = score]

INTEREST_BONUS_PER_MATCH == 5
MAX_INTEREST_BONUS == 100
MANUAL_BOOST_VALUE == 500

\* HISTORY_SCORE_WEIGHTS, in tenths
WeightTenths(k) ==
    CASE k = "text" -> 5
      [] k = "photo" -> 10
      [] k = "video" -> 12
      [] k = "voice" -> 15
      [] k = "other_media" -> 2

\* math.log(n), in thousandths, rounded to the nearest
LnMilli(n) ==
    CASE n = 1 -> 0
      [] n = 2 -> 693
      [] n = 3 -> 1099
      [] n = 4 -> 1386
      [] n = 5 -> 1609
      [] n = 6 -> 1792
      [] n = 7 -> 1946
      [] n = 8 -> 2079
      [] n = 9 -> 2197
      [] n = 10 -> 2303
      [] n = 11 -> 2398
      [] n = 12 -> 2485

\* the sum of f over the finite set S
RECURSIVE SumOver(_, _)
SumOver(S, f) ==
    IF S = {} THEN 0
    ELSE LET x == CHOOSE y \in S : TRUE
         IN f[x] + SumOver(S \ {x}, f)

\* a slip: the terms grow with the count, not with its logarithm
HistoryScoreLinear(stats) ==
    SumOver(STATS_KEYS,
            [k \in STATS_KEYS |->
                IF stats[k] > 0 THEN WeightTenths(k) * 1000 * stats[k] ELSE 0])

\* a slip: a kind counts only while it has a single message
HistoryScoreSingles(stats) ==
    SumOver(STATS_KEYS,
            [k \in STATS_KEYS |->
                IF stats[k] = 1 THEN WeightTenths(k) * LnMilli(stats[k] + 1) ELSE 0])

\* _calculate_history_score lines 76-97 (USE_LOGARITHMIC_HISTORY_SCORE)
HistoryScore(stats) ==
    SumOver(STATS_KEYS,
            [k \in STATS_KEYS |->
                IF stats[k] > 0 THEN WeightTenths(k) * LnMilli(stats[k] + 1) ELSE 0])

\* a slip: the texts of the persona's own messages are searched as well
MatchCountAllSenders(messages) ==
    SumOver(1..Len(messages),
            [i \in 1..Len(messages) |->
                IF messages[i].text THEN messages[i].matches ELSE 0])

\* lines 110-123: the occurrences of the interests in the texts of the
\* messages that the persona did not send
MatchCount(messages) ==
    SumOver(1..Len(messages),
            [i \in 1..Len(messages) |->
                IF messages[i].sender # "You" /\ messages[i].text
                THEN messages[i].matches ELSE 0])

Min(a, b) == IF a <= b THEN a ELSE b

\* _calculate_interest_bonus lines 99-132 (the persona has interests)
InterestBonus(messages) ==
    IF messages = << >> THEN 0
    ELSE IF \A i \in 1..Len(messages) : messages[i].sender = "You" \/ ~messages[i].text
    THEN 0
    ELSE Min(MatchCount(messages) * INTEREST_BONUS_PER_MATCH * ScoreUnit,
             MAX_INTEREST_BONUS * ScoreUnit)

\* _get_manual_boost lines 134-141
ManualBoost(priority) == IF priority THEN MANUAL_BOOST_VALUE * ScoreUnit ELSE 0

\* calculate_elo lines 153-180, after a miss in the cache
CalculateElo(rec, priority) ==
    IF rec.messages = << >>
    THEN ManualBoost(priority)
    ELSE HistoryScore(rec.stats) + InterestBonus(rec.messages) + ManualBoost(priority)

\* the match counts of one text
MatchCounts == {0, 1, 19, 21}

\* the stored messages as calculate_elo sees them
EloMessages ==
    {[sender |-> "Contact", text |-> TRUE, matches |-> n] : n \in MatchCounts}
    \cup {[sender |-> "You", text |-> TRUE, matches |-> 1]}
    \cup {[sender |-> s, text |-> FALSE, matches |-> 0] : s \in {"You", "Contact"}}

MaxEloMessages == 2

EloMessageLists == UNION {[1..n -> EloMessages] : n \in 0..MaxEloMessages}

\* the aggregate counters of a document
EloStats ==
    {s \in [STATS_KEYS -> {0, 1, 10}] : \A k \in STATS_KEYS \ {"text"} : s[k] <= 1}

\* a document calculate_elo may load: the counters of a document without
\* messages are zero (every write that raises a counter stores a message)
EloRecord(s, m) ==
    IF m = << >> THEN DefaultRecord("Unknown")
    ELSE [kind |-> "ok", title |-> "A", stats |-> s, messages |-> m]

IdleElo ==
    [pc |-> "idle", chat |-> NoChat, rec |-> AbsentFile, priority |-> FALSE,
     bonus |-> 0, result |-> 0]

\* calculate_elo is called for a thread with some document; the thread is
\* or is not among the priority threads
\* (lines 146-151: a score in the cache is returned at once, "e_hit")
EloCall ==
    /\ el.pc = "idle"
    /\ \E c \in ScoredChats :
          IF cache[c] # NoScore
          THEN el' = [IdleElo EXCEPT !.pc = "e_hit", !.chat = c, !.result = cache[c]]
          ELSE \E s \in EloStats, m \in EloMessageLists, priority \in BOOLEAN :
                  el' = [IdleElo EXCEPT !.pc = "e_load", !.chat = c,
                                        !.rec = EloRecord(s, m), !.priority = priority]
    /\ UNCHANGED rk
    /\ RankOnly

\* lines 153-180: the history is loaded and the score is returned; bonus is
\* the local interest_bonus (line 163), calculated for a history with messages
EloReturn ==
    /\ el.pc = "e_load"
    /\ el' = [el EXCEPT !.pc = "e_done",
                        !.bonus = IF el.rec.messages = << >> THEN 0
                                  ELSE InterestBonus(el.rec.messages),
                        !.result = CalculateElo(el.rec, el.priority)]
    /\ cache' = CacheStore(el.chat, CalculateElo(el.rec, el.priority))
    /\ UNCHANGED <<storeVars, engineVars, ctlVars, sendVars, genVars, loopVars, lastInit, sch, rk>>

\* the caller has taken the score
EloDone ==
    /\ el.pc \in {"e_done", "e_hit"}
    /\ el' = IdleElo
    /\ UNCHANGED rk
    /\ RankOnly

\* clear_cache lines 239-243, called when the scores of a cycle have been
\* used
ClearCache ==
    /\ el.pc = "idle"
    /\ cache # EmptyCache
    /\ cache' = EmptyCache
    /\ UNCHANGED <<storeVars, engineVars, ctlVars, sendVars, genVars, loopVars, rankVars, lastInit, sch>>

(***************************************************************************)
(* interaction.InteractionModule: the initiation loop                      *)
(***************************************************************************)
\* timedelta(days=1), in hours
MIN_INTERVAL_BETWEEN_AI_INITIATION == 24
MIN_TIME_BEFORE_INITIATION_HOURS == 12

\* the hours at which the model looks at the scheduler: around the quiet
\* period and around the spacing
SchedTimes ==
    {0, 2, MIN_TIME_BEFORE_INITIATION_HOURS, MIN_TIME_BEFORE_INITIATION_HOURS + 2,
     MIN_INTERVAL_BETWEEN_AI_INITIATION, MIN_INTERVAL_BETWEEN_AI_INITIATION + 2,
     MIN_INTERVAL_BETWEEN_AI_INITIATION + MIN_TIME_BEFORE_INITIATION_HOURS}

\* iter_dialogs: the dialogs of the account, in the transport's order: a
\* contact, a group, a bot account and the account's own dialog
Dialogs == <<1, 2, 3, 5>>

\* _me_id: the id of the account itself
MeId == 5

\* dialog.entity.bot
IsBot(c) == c = 3

\* the threads an administrator may put on the list excluded_chats
ExcludableChats == {1}

\* context: the number of stored messages handed to generate_response;
\* failed: the failure the last cycle met ("none" once a new cycle has begun)
IdleSched ==
    [pc |-> "sleep", chat |-> NoChat, eligible |-> << >>, context |-> 0, failed |-> "none"]

\* a slip: a thread with a cooldown entry is skipped even when the cooldown
\* has run out
EligibleWithoutEntry(c) ==
    /\ c # MeId /\ ~IsGroup(c) /\ ~IsBot(c)
    /\ c \notin excluded
    /\ (c \notin DOMAIN cool \/ cool[c] = NoTime)

\* lines 736-751: a one-to-one dialog that is not the account itself, not a
\* bot, not excluded and not on cooldown
Eligible(c) ==
    /\ c # MeId /\ ~IsGroup(c) /\ ~IsBot(c)
    /\ c \notin excluded
    /\ (c \notin DOMAIN cool \/ cool[c] = NoTime \/ now >= cool[c])

\* a slip: a thread without stored messages counts as too recent
TooRecentOrEmpty(messages) ==
    \/ messages = << >>
    \/ now - messages[Len(messages)].timestamp < MIN_TIME_BEFORE_INITIATION_HOURS

\* line 835: the last stored message is too recent
TooRecent(messages) ==
    /\ messages # << >>
    /\ now - messages[Len(messages)].timestamp < MIN_TIME_BEFORE_INITIATION_HOURS

\* a slip: the spacing is compared with the quiet period
InitiatedRecentlyQuiet(c) ==
    lastInit[c] # NoTime /\ now - lastInit[c] < MIN_TIME_BEFORE_INITIATION_HOURS

\* lines 841-849: the engine initiated in this thread less than the spacing ago
InitiatedRecently(c) ==
    lastInit[c] # NoTime /\ now - lastInit[c] < MIN_INTERVAL_BETWEEN_AI_INITIATION

\* the id the transport gives to the next message of the thread
NextMessageId(c) ==
    1 + SetMax(MessageIdsOf(LoadChatHistory(c).messages)
               \cup {st[t].msg.message_id : t \in {u \in StoreTasks : st[u].chat = c}})

SchedOnly ==
    UNCHANGED <<det, cool, grp, permits, others, instr, hs, last, rankVars, ctlVars, sendVars, genVars, loopVars>>

\* lines 800-802: the cycle is over; clear_cache; the loop sleeps again
CycleEnd ==
    /\ sch' = IdleSched
    /\ cache' = EmptyCache

\* lines 800-802 after a failure that was caught and logged inside the cycle
CycleFailed(failure) ==
    /\ sch' = [IdleSched EXCEPT !.failed = failure]
    /\ cache' = EmptyCache

\* _initiation_loop lines 722-731: the sleep is over and the persona is
\* running and active; the loop asks the transport for the dialogs.
SchedWake ==
    /\ sch.pc = "sleep"
    /\ running
    /\ sch' = [sch EXCEPT !.pc = "dialogs", !.failed = "none"]
    /\ UNCHANGED <<file, st, now, lastInit, cache>>
    /\ SchedOnly

\* lines 733-780: the dialogs have arrived and the candidates are listed.
\* Without candidates or without base instructions the loop goes back to
\* sleep (continue, lines 769 and 780).
SchedListed ==
    /\ sch.pc = "dialogs"
    /\ LET eligible_chats == SelectSeq(Dialogs, Eligible)
       IN IF eligible_chats = << >> \/ ~instr
          THEN sch' = IdleSched
          ELSE sch' = [IdleSched EXCEPT !.pc = "rank", !.eligible = eligible_chats]
    /\ UNCHANGED <<file, st, now, lastInit, cache>>
    /\ SchedOnly

\* calculate_elo lines 146-151 and 178-180: the cached score of a thread, or
\* the score elo[c] calculated now
ScoreOf(c, elo) == IF cache[c] # NoScore THEN cache[c] ELSE elo[c]

\* lines 782-802: get_top_chat_for_initiation has returned; the scores it
\* calculated are in the cache; elo[c] is what a calculation for c gives.
SchedRanked(elo) ==
    /\ sch.pc = "rank"
    /\ LET results == [c \in PrivateChats |-> ScoreOf(c, elo)]
           asked == {sch.eligible[i] : i \in 1..Len(sch.eligible)}
           top_chat_id == GetTopChatForInitiation(sch.eligible, results)
       IN IF top_chat_id = NoChat
          THEN CycleEnd
          ELSE /\ sch' = [IdleSched EXCEPT !.pc = "i_load", !.chat = top_chat_id]
               /\ cache' = [c \in PrivateChats |-> IF c \in asked THEN results[c] ELSE cache[c]]
    /\ UNCHANGED <<file, st, now, lastInit>>
    /\ SchedOnly

context_limit == 5

\* lines 861-862: the size of messages[-context_limit:]
DialogContext(messages) == Min(Len(messages), context_limit)

\* calculate_elo as the ranking of a cycle calls it: the score of the stored
\* document of c (the stored texts do not mention the interests)
StoredElo(c, priority) ==
    LET rec == IF c \in Chats THEN LoadChatHistory(c) ELSE DefaultRecord("Unknown")
        seen == [i \in 1..Len(rec.messages) |->
                    [sender |-> rec.messages[i].sender, text |-> rec.messages[i].text,
                     matches |-> 0]]
    IN CalculateElo([rec EXCEPT !.messages = IF rec.messages = << >> THEN << >> ELSE seen],
                    priority)

\* lines 782-802 with the scores calculate_elo gives for the stored documents;
\* priority is the setting priority_initiation_chats
SchedScored(priority) ==
    SchedRanked([c \in PrivateChats |-> StoredElo(c, c \in priority)])

\* _try_initiate_conversation lines 813-849: the history is loaded and the
\* two conditions are tested.
InitiationGate ==
    /\ sch.pc = "i_load"
    /\ LET messages == LoadChatHistory(sch.chat).messages
       IN IF TooRecent(messages) \/ InitiatedRecently(sch.chat)
          THEN CycleEnd
          ELSE /\ sch' = [sch EXCEPT !.pc = "i_gen", !.context = DialogContext(messages)]
               /\ UNCHANGED cache
    /\ UNCHANGED <<file, st, now, lastInit>>
    /\ SchedOnly

\* lines 866-880: generate_response has returned text (ok) or null
InitiationGenerated(ok) ==
    /\ sch.pc = "i_gen"
    /\ IF ok THEN sch' = [sch EXCEPT !.pc = "i_send"] /\ UNCHANGED cache
             ELSE CycleFailed("generation")
    /\ UNCHANGED <<file, st, now, lastInit>>
    /\ SchedOnly

\* lines 873-876: _send_message_with_delay has returned; a message that was
\* sent is handed to a background save task (line 707); the time of the
\* initiation is recorded.
InitiationSent(outcome) ==
    /\ sch.pc = "i_send"
    /\ IF outcome = "sent"
       THEN /\ NextMessageId(sch.chat) <= MaxMsgId
            /\ \E t \in StoreTasks :
                 /\ st[t].pc = "idle"
                 /\ \A u \in StoreTasks : st[u].pc = "idle" => t <= u
                 /\ st' = [st EXCEPT ![t] =
                       [IdleTask EXCEPT !.pc = "a_load", !.chat = sch.chat,
                                        !.msg = SentMessageData(NextMessageId(sch.chat))]]
       ELSE UNCHANGED st
    /\ lastInit' = [lastInit EXCEPT ![sch.chat] = now]
    /\ IF outcome = "sent" THEN CycleEnd ELSE CycleFailed("delivery")
    /\ UNCHANGED <<file, now>>
    /\ SchedOnly

\* lines 754-759: iter_dialogs raises; the error is logged and the loop
\* goes back to its sleep (continue)
SchedDialogsFailed ==
    /\ sch.pc = "dialogs"
    /\ sch' = [IdleSched EXCEPT !.failed = "dialogs"]
    /\ UNCHANGED <<file, st, now, lastInit, cache>>
    /\ SchedOnly

\* elo_calculator lines 204-237 and interaction lines 794-802: every
\* calculation of the cycle fails, every score is 0, no thread is returned
\* (a calculation that fails for one thread only gives that thread the
\* score 0, which SchedRanked covers)
SchedScoringFailed ==
    /\ sch.pc = "rank"
    /\ CycleFailed("scoring")
    /\ UNCHANGED <<file, st, now, lastInit>>
    /\ SchedOnly

\* a slip: the loop ends when an exception reaches it
LoopEndsOnException == [IdleSched EXCEPT !.pc = "stopped", !.failed = "exception"]

\* lines 807-809: the exception is logged and the loop sleeps five minutes
LoopBacksOff == [IdleSched EXCEPT !.pc = "backoff", !.failed = "exception"]

\* lines 771-786 and 807-809: _get_base_instructions or
\* get_top_chat_for_initiation raises an exception that nothing inside the
\* cycle catches
SchedRaised ==
    /\ sch.pc = "rank"
    /\ sch' = LoopBacksOff
    /\ UNCHANGED <<file, st, now, lastInit, cache>>
    /\ SchedOnly

\* lines 809 and 722: the five minutes are over and the loop tests
\* _is_running again
SchedBackoffSlept ==
    /\ sch.pc = "backoff"
    /\ sch' = [sch EXCEPT !.pc = "sleep"]
    /\ UNCHANGED <<file, st, now, lastInit, cache>>
    /\ SchedOnly

\* _try_initiate_conversation lines 924-928: an exception raised by the
\* load, the generation or the send is logged; the call returns and the
\* cycle ends as usual
InitiationRaised ==
    /\ sch.pc \in {"i_load", "i_gen", "i_send"}
    /\ CycleFailed("exception")
    /\ UNCHANGED <<file, st, now, lastInit>>
    /\ SchedOnly

\* the clock moves on to the next hour the model looks at
SchedTick ==
    /\ \E t \in SchedTimes :
         /\ t > now
         /\ \A u \in SchedTimes : u > now => t <= u
         /\ now' = t
    /\ UNCHANGED <<file, st, lastInit, sch, cache>>
    /\ SchedOnly

\* the loop task has ended
StoppedSched == [IdleSched EXCEPT !.pc = "stopped"]

\* stop_persona lines 108-121: persona_active and _is_running become false
\* and the loop task is cancelled: CancelledError is raised at the await the
\* loop is suspended at (the sleep, iter_dialogs, the ranking, the load,
\* generate_response, or the typing delay and client.send_message inside
\* _send_message_with_delay, whose handlers catch Exception only), and the
\* loop breaks (lines 804-806) without reaching clear_cache.
StopCall ==
    /\ running
    /\ stop = "none"
    /\ running' = FALSE
    /\ stop' = "await"
    /\ sch' = StoppedSched
    /\ UNCHANGED <<storeVars, engineVars, rankVars, sendVars, genVars, loopVars, lastInit, cache, excluded>>

\* a slip: the cooldowns outlive the deactivation
CooldownsKept == cool

\* stop_persona line 125: self._cooldown_until.clear()
CooldownsCleared == [c \in Chats |-> NoTime]

\* stop_persona lines 117-127: the task has ended; the four maps are cleared.
StopFinish ==
    /\ stop = "await"
    /\ sch.pc = "stopped"
    /\ stop' = "none"
    /\ grp' = [c \in Chats |-> 0]
    /\ det' = [c \in Chats |-> 0]
    /\ cool' = CooldownsCleared
    /\ lastInit' = [c \in Chats |-> NoTime]
    /\ UNCHANGED <<storeVars, rankVars, sendVars, genVars, loopVars, now, permits, others, instr, hs, last,
                   sch, cache, excluded, running>>

\* start_persona lines 90-106: a new loop task starts at its sleep (one
\* stop_persona or start_persona at a time)
StartPersona ==
    /\ ~running
    /\ stop = "none"
    /\ running' = TRUE
    /\ sch' = IdleSched
    /\ UNCHANGED <<storeVars, engineVars, rankVars, sendVars, genVars, loopVars, lastInit, cache, excluded, stop>>

(***************************************************************************)
(* interaction._send_message_with_delay with _resolve_entity and            *)
(* _save_sent_message_task                                                  *)
(***************************************************************************)
IdleSend ==
    [pc |-> "idle", chat |-> NoChat, calls |-> 0, waits |-> 0, result |-> "none",
     sent |-> NoMsg, why |-> "none", fate |-> "none"]

\* what the transport does with a send_message call: it returns the sent
\* message, raises FloodWaitError, raises UserIsBlockedError,
\* ChatWriteForbiddenError or ChatAdminRequiredError, or raises anything else
TransportOutcomes == {"sent", "flood", "refused", "error"}

\* what becomes of the caller after the call has returned
CallerFates == {"completed", "failed", "cancelled"}

SendOnly == UNCHANGED <<engineVars, schedVars, rankVars, ctlVars, genVars, loopVars>>

\* a slip: the result is true whenever a send was attempted
SendResultAttempted(sent) == TRUE

\* lines 691 and 708-713: if sent_message: ... return True, else return False
SendResult(sent) == sent # NoMsg

\* the function returns: its result and the path it took
SendFinished(sent, why) ==
    [sd EXCEPT !.pc = "s_done", !.sent = sent, !.why = why,
               !.result = IF SendResult(sent) THEN "true" ELSE "false"]

\* a slip: no save task is created for the sent message
NoSaveTask(c, id) == IdleTask

\* lines 692-707: create_task(_save_sent_message_task(chat_id, message_data));
\* the task has not run yet
SaveSentMessage(c, id) ==
    [IdleTask EXCEPT !.pc = "a_load", !.chat = c, !.msg = SentMessageData(id)]

\* lines 633-638: the call; an empty text returns false at once, otherwise
\* _resolve_entity is awaited
SendCall(c, text) ==
    /\ sd.pc = "idle"
    /\ sd' = IF text THEN [IdleSend EXCEPT !.pc = "s_resolve", !.chat = c]
             ELSE [IdleSend EXCEPT !.pc = "s_done", !.chat = c, !.result = "false",
                                   !.why = "empty"]
    /\ UNCHANGED storeVars
    /\ SendOnly

\* _resolve_entity lines 607-619 and lines 639-644: get_entity has returned
\* (known) or has raised; an unresolved target ends the call
SendResolved(known) ==
    /\ sd.pc = "s_resolve"
    /\ sd' = IF known THEN [sd EXCEPT !.pc = "s_typing"]
             ELSE SendFinished(NoMsg, "unresolved")
    /\ UNCHANGED storeVars
    /\ SendOnly

\* lines 650-669: the typing status and the sleep; whether the status could
\* be set or not, the sleep ends and send_message is called (line 670)
SendTyped ==
    /\ sd.pc = "s_typing"
    /\ sd' = [sd EXCEPT !.pc = "s_send", !.calls = @ + 1]
    /\ UNCHANGED storeVars
    /\ SendOnly

\* lines 670-708: send_message has returned or raised.  A sent message gets
\* its save task before the function returns; FloodWaitError is followed by
\* a sleep (line 676); every other error is logged.
SendTransport(outcome) ==
    /\ sd.pc = "s_send"
    /\ IF outcome = "sent"
       THEN /\ NextMessageId(sd.chat) <= MaxMsgId
            /\ sd' = SendFinished(NextMessageId(sd.chat), "sent")
            /\ \E t \in StoreTasks :
                 /\ st[t].pc = "idle"
                 /\ \A u \in StoreTasks : st[u].pc = "idle" => t <= u
                 /\ st' = [st EXCEPT ![t] = SaveSentMessage(sd.chat, NextMessageId(sd.chat))]
       ELSE /\ sd' = IF outcome = "flood"
                     THEN [sd EXCEPT !.pc = "s_flood", !.waits = @ + 1]
                     ELSE SendFinished(NoMsg, outcome)
            /\ UNCHANGED st
    /\ UNCHANGED file
    /\ SendOnly

\* lines 672-676 and 709-713: the sleep after FloodWaitError is over; no
\* message was sent
SendFloodSlept ==
    /\ sd.pc = "s_flood"
    /\ sd' = SendFinished(NoMsg, "flood")
    /\ UNCHANGED storeVars
    /\ SendOnly

\* the caller is cancelled (stop_persona, the timer of line 205) while the
\* call waits: CancelledError is no Exception and passes every except clause
SendCancelled ==
    /\ sd.pc \in {"s_resolve", "s_typing", "s_send", "s_flood"}
    /\ sd' = [sd EXCEPT !.pc = "s_done", !.result = "cancelled", !.why = "cancelled"]
    /\ UNCHANGED storeVars
    /\ SendOnly

\* the caller has the result; the rest of its pipeline completes, fails or is
\* cancelled
SendReturn(fate) ==
    /\ sd.pc = "s_done"
    /\ sd' = [sd EXCEPT !.pc = "idle",
                        !.fate = IF sd.result = "cancelled" THEN "cancelled" ELSE fate]
    /\ UNCHANGED storeVars
    /\ SendOnly

(***************************************************************************)
(* ai_module.AIModule.generate_response                                    *)
(***************************************************************************)
max_retries == 3
retry_delay_base == 5

\* lines 165-194: the prompt: text, image, text with image, or neither (an
\* opener of the initiation loop)
PromptKinds == {"text", "image", "both", "opener"}

\* What a call of generate_content_async leads to: a text; a block by the
\* safety filters (AIContentSafetyError); no usable candidate
\* (AIGenerationError); InternalServerError or ResourceExhausted; another
\* GoogleAPIError (InvalidArgument, PermissionDenied, NotFound ...); any
\* other exception.
ProviderOutcomes == {"text", "blocked", "empty", "transient", "client", "unexpected"}

\* line 325: except (InternalServerError, ResourceExhausted, GoogleAPIError):
\* GoogleAPIError is the base class of every error of the provider's API
Retried(outcome) == outcome \in {"transient", "client"}

RECURSIVE Pow2(_)
Pow2(n) == IF n = 0 THEN 1 ELSE 2 * Pow2(n - 1)

\* line 334: retry_delay_base * (2**attempt), in whole seconds (the jitter
\* random.uniform(0, 1) is left out)
RetryDelay(attempt) == retry_delay_base * Pow2(attempt)

IdleGen ==
    [pc |-> "idle", kind |-> "none", attempt |-> 0, calls |-> 0, outcomes |-> << >>,
     delays |-> << >>, result |-> "none"]

GenOnly == UNCHANGED <<storeVars, engineVars, schedVars, rankVars, ctlVars, sendVars, loopVars>>

\* lines 148-204: the prompt is built and the first provider call is awaited
GenCall(kind) ==
    /\ ai.pc = "idle"
    /\ ai' = [IdleGen EXCEPT !.pc = "g_call", !.kind = kind, !.calls = 1]
    /\ GenOnly

\* lines 204-345: the provider call has returned or raised
GenProvider(outcome) ==
    /\ ai.pc = "g_call"
    /\ LET seen == Append(ai.outcomes, outcome)
       IN IF outcome = "text"
          THEN ai' = [ai EXCEPT !.pc = "g_done", !.outcomes = seen, !.result = "text"]
          ELSE IF Retried(outcome) /\ ai.attempt + 1 # max_retries
          THEN ai' = [ai EXCEPT !.pc = "g_sleep", !.outcomes = seen,
                                !.delays = Append(@, RetryDelay(ai.attempt))]
          ELSE ai' = [ai EXCEPT !.pc = "g_done", !.outcomes = seen, !.result = "null"]
    /\ GenOnly

\* lines 334-336 and 196-204: the backoff sleep is over; the next attempt
\* calls the provider
GenSlept ==
    /\ ai.pc = "g_sleep"
    /\ ai' = [ai EXCEPT !.pc = "g_call", !.attempt = @ + 1, !.calls = @ + 1]
    /\ GenOnly

\* the caller has the result
GenReturn ==
    /\ ai.pc = "g_done"
    /\ ai' = IdleGen
    /\ GenOnly

(***************************************************************************)
(* interaction.InteractionModule: start_persona, stop_persona and the loop *)
(* tasks they create and cancel.  settings_manager.set never suspends (its *)
(* lock is free whenever a task runs and the save is synchronous), so      *)
(* start_persona runs in one piece; stop_persona is suspended at           *)
(* `await self._initiation_task` (line 118).                               *)
(***************************************************************************)
MaxLoopTasks == 4

LoopTasks == 1..MaxLoopTasks

\* the calls of stop_persona that may be under way at once
StopCallers == {1, 2}

NoTask == 0

\* me: _me_id is set; active: the setting persona_active; task:
\* _initiation_task; alive: the loop tasks that have not ended; cancelled: the
\* loop tasks with a pending cancellation; made: the number of tasks created;
\* awaited[k]: the task call k of stop_persona is waiting for
NoLoops ==
    [me |-> FALSE, active |-> FALSE, task |-> NoTask, alive |-> {}, cancelled |-> {},
     made |-> 0, awaited |-> [k \in StopCallers |-> NoTask]]

LoopsOnly ==
    UNCHANGED <<storeVars, now, permits, others, instr, hs, last, sch, cache, rankVars,
                excluded, stop, sendVars, genVars>>

\* stop_persona lines 123-126
RuntimeStateCleared ==
    /\ grp' = [c \in Chats |-> 0]
    /\ det' = [c \in Chats |-> 0]
    /\ cool' = CooldownsCleared
    /\ lastInit' = [c \in Chats |-> NoTime]

\* start_persona lines 90-106
start_persona ==
    /\ lp.made < MaxLoopTasks
    /\ IF running
       THEN UNCHANGED <<running, lp>>
       ELSE IF ~lp.me
       THEN /\ lp' = [lp EXCEPT !.active = FALSE]
            /\ UNCHANGED running
       ELSE /\ running' = TRUE
            /\ lp' = [lp EXCEPT !.active = TRUE, !.made = @ + 1, !.task = lp.made + 1,
                                !.alive = @ \cup {lp.made + 1}]
    /\ UNCHANGED <<det, cool, grp, lastInit>>
    /\ LoopsOnly

\* set_client_ready lines 80-85
set_client_ready ==
    /\ ~lp.me
    /\ lp.made < MaxLoopTasks
    /\ IF lp.active /\ ~running
       THEN /\ running' = TRUE
            /\ lp' = [lp EXCEPT !.me = TRUE, !.made = @ + 1, !.task = lp.made + 1,
                                !.alive = @ \cup {lp.made + 1}]
       ELSE /\ lp' = [lp EXCEPT !.me = TRUE]
            /\ UNCHANGED running
    /\ UNCHANGED <<det, cool, grp, lastInit>>
    /\ LoopsOnly

\* stop_persona lines 108-118, and lines 123-127 when there is no task: the
\* flags are lowered, the task is cancelled (a request that reaches a task
\* that is still alive) and the caller waits for it
stop_persona(k) ==
    /\ lp.awaited[k] = NoTask
    /\ running \/ lp.active
    /\ running' = FALSE
    /\ IF lp.task # NoTask
       THEN /\ lp' = [lp EXCEPT !.active = FALSE,
                                !.cancelled = @ \cup ({lp.task} \cap lp.alive),
                                !.awaited[k] = lp.task]
            /\ UNCHANGED <<det, cool, grp, lastInit>>
       ELSE /\ lp' = [lp EXCEPT !.active = FALSE]
            /\ RuntimeStateCleared
    /\ LoopsOnly

\* stop_persona lines 119-127: the awaited task has ended
stop_persona_resumed(k) ==
    /\ lp.awaited[k] # NoTask
    /\ lp.awaited[k] \notin lp.alive
    /\ lp' = [lp EXCEPT !.task = NoTask, !.awaited[k] = NoTask]
    /\ RuntimeStateCleared
    /\ UNCHANGED running
    /\ LoopsOnly

\* _initiation_loop lines 804-806: CancelledError reaches the loop at its
\* await and the task ends
LoopCancelled(t) ==
    /\ t \in lp.alive \cap lp.cancelled
    /\ lp' = [lp EXCEPT !.alive = @ \ {t}, !.cancelled = @ \ {t}]
    /\ UNCHANGED <<running, det, cool, grp, lastInit>>
    /\ LoopsOnly

\* _initiation_loop line 722: the loop tests _is_running after its sleep and
\* ends when it is false
LoopExits(t) ==
    /\ t \in lp.alive
    /\ ~running
    /\ lp' = [lp EXCEPT !.alive = @ \ {t}, !.cancelled = @ \ {t}]
    /\ UNCHANGED <<running, det, cool, grp, lastInit>>
    /\ LoopsOnly

EngineInit ==
    /\ now = 0
    /\ det = [c \in Chats |-> 0]
    /\ cool = [c \in Chats |-> NoTime]
    /\ grp = [c \in Chats |-> 0]
    /\ permits = MAX_CONCURRENT_RESPONSES
    /\ others = 0
    /\ instr \in BOOLEAN
    /\ hs = [h \in Handlers |-> DoneHandler]
    /\ last = NoEvent
    /\ sd = IdleSend
    /\ ai = IdleGen
    /\ lp = NoLoops

StoreInit ==
    /\ file = [c \in Chats |-> AbsentFile]
    /\ st = [t \in StoreTasks |-> IdleTask]

StoreNext ==
    \/ \E t \in StoreTasks, c \in StoreChats, id \in MsgIds :
          ShouldStore(id) /\ AppendCall(t, c, FormatMessageData(id, "Contact"))
    \/ \E t \in StoreTasks : AppendLoad(t)
    \/ \E t \in StoreTasks : AppendWrite(t)
    \/ \E c \in StoreChats, title \in Titles : UpdateChatTitle(c, title)
    \/ \E t \in StoreTasks, c \in StoreChats, title \in Titles : CollectCall(t, c, title)
    \/ \E t \in StoreTasks : CollectLoad(t)
    \/ \E t \in StoreTasks : CollectTitle(t)
    \/ \E t \in StoreTasks, ids \in SUBSET MsgIds : CollectIter(t, ids)
    \/ \E t \in StoreTasks : CollectSave(t)

SchedIdle ==
    /\ lastInit = [c \in Chats |-> NoTime]
    /\ sch = IdleSched
    /\ cache = EmptyCache

\* the persona has been started; no stop_persona is under way
Started ==
    /\ running = TRUE
    /\ stop = "none"

RankIdle == rk = IdleRank /\ el = IdleElo

Init == StoreInit /\ EngineInit /\ SchedIdle /\ RankIdle /\ Started /\ excluded = {}

\* The store under concurrent appends, title updates and history collections.
SpecStore == Init /\ [][StoreNext]_vars

EngineNext ==
    \/ \E h \in Handlers, c \in Chats, ev \in Events, d \in CooldownMinHours..CooldownMaxHours :
          HandleNewMessage(h, c, ev, d)
    \/ \E h \in Handlers, ok \in BOOLEAN : DeflectGenerated(h, ok)
    \/ \E h \in Handlers, outcome \in SendOutcomes : DeflectSent(h, outcome)
    \/ \E h \in Handlers : NotifyOperator(h)
    \/ \E h \in Handlers : AcquirePermit(h)
    \/ \E h \in Handlers : ReplyLoaded(h)
    \/ \E h \in Handlers, ok \in BOOLEAN : PhotoDownloaded(h, ok)
    \/ \E h \in Handlers, ok \in BOOLEAN : ReplyGenerated(h, ok)
    \/ \E h \in Handlers, outcome \in SendOutcomes : ReplySent(h, outcome)
    \/ \E h \in Handlers : ResponseTimeout(h)
    \/ Tick

\* The engine: inbound events of the threads in Chats, handled concurrently.
SpecEngine == Init /\ [][EngineNext]_vars

PoolNext ==
    \/ \E h \in Handlers, c \in Chats, ev \in Events \ {"kw"} :
          HandleNewMessage(h, c, ev, CooldownMinHours)
    \/ \E h \in Handlers : AcquirePermit(h)
    \/ \E h \in Handlers : AcquireTimeout(h)
    \/ \E h \in Handlers : ReplyLoaded(h)
    \/ \E h \in Handlers, ok \in BOOLEAN : PhotoDownloaded(h, ok)
    \/ \E h \in Handlers, ok \in BOOLEAN : ReplyGenerated(h, ok)
    \/ \E h \in Handlers, outcome \in SendOutcomes : ReplySent(h, outcome)
    \/ \E h \in Handlers : ResponseTimeout(h)
    \/ OtherAcquire
    \/ OtherRelease

RankNext ==
    \/ \E ids \in CandidateLists : RankCall(ids)
    \/ \E results \in [PrivateChats -> Results] : RankGathered(results)
    \/ RankDone

\* Calls of get_top_chat_for_initiation with every list of candidates and
\* every assignment of scores within the bounds.
SpecRank == Init /\ [][RankNext]_vars

EloNext ==
    \/ EloCall
    \/ EloReturn
    \/ EloDone
    \/ ClearCache

\* Calls of calculate_elo with every document within the bounds.
SpecElo == Init /\ [][EloNext]_vars

\* a document left by an earlier run of the program: one message of the
\* contact, stored at hour 0
PersistedRecord ==
    [DefaultRecord("A") EXCEPT
        !.messages = <<[message_id |-> 1, sender |-> "Contact", timestamp |-> 0,
                        text |-> MsgHasText(1), photo_attached |-> MsgHasPhoto(1)]>>,
        !.stats = FormatStats(1)]

\* the process starts with whatever documents earlier runs have left
SchedInit ==
    /\ file \in [Chats -> {AbsentFile, PersistedRecord}]
    /\ \A c \in Chats : IsGroup(c) => file[c] = AbsentFile
    /\ st = [t \in StoreTasks |-> IdleTask]
    /\ EngineInit
    /\ SchedIdle
    /\ RankIdle
    /\ Started
    /\ excluded \in SUBSET ExcludableChats

SchedNext ==
    \/ SchedWake
    \/ SchedListed
    \/ \E elo \in [PrivateChats -> Scores] : SchedRanked(elo)
    \/ InitiationGate
    \/ \E ok \in BOOLEAN : InitiationGenerated(ok)
    \/ \E outcome \in SendOutcomes : InitiationSent(outcome)
    \/ \E t \in StoreTasks : AppendLoad(t)
    \/ \E t \in StoreTasks : AppendWrite(t)
    \/ SchedTick

\* The initiation loop with the background saves of the messages it sends.
SpecSched == SchedInit /\ [][SchedNext]_vars

EnumNext ==
    \/ SchedWake
    \/ SchedListed
    \/ \E elo \in [PrivateChats -> Scores] : SchedRanked(elo)
    \/ InitiationGate
    \/ \E ok \in BOOLEAN : InitiationGenerated(ok)
    \/ \E outcome \in SendOutcomes : InitiationSent(outcome)
    \/ \E t \in StoreTasks : AppendLoad(t)
    \/ \E t \in StoreTasks : AppendWrite(t)
    \/ \E c \in Chats \cap PrivateChats, d \in CooldownMinHours..CooldownMaxHours :
          HandleNewMessage(1, c, "kw", d)
    \/ \E ok \in BOOLEAN : DeflectGenerated(1, ok)
    \/ \E outcome \in SendOutcomes : DeflectSent(1, outcome)
    \/ NotifyOperator(1)
    \/ SchedTick

LifeNext ==
    \/ SchedNext
    \/ StopCall
    \/ StopFinish
    \/ StartPersona

\* The initiation loop while an administrator switches the persona off and
\* on again.
SpecLife == SchedInit /\ [][LifeNext]_vars

StopNext ==
    \/ \E c \in Chats, ev \in Events, d \in CooldownMinHours..CooldownMaxHours :
          HandleNewMessage(1, c, ev, d)
    \/ \E ok \in BOOLEAN : DeflectGenerated(1, ok)
    \/ \E outcome \in SendOutcomes : DeflectSent(1, outcome)
    \/ NotifyOperator(1)
    \/ AcquirePermit(1)
    \/ ReplyLoaded(1)
    \/ \E ok \in BOOLEAN : PhotoDownloaded(1, ok)
    \/ \E ok \in BOOLEAN : ReplyGenerated(1, ok)
    \/ \E outcome \in SendOutcomes : ReplySent(1, outcome)
    \/ ResponseTimeout(1)
    \/ AcquireTimeout(1)
    \/ OtherAcquire
    \/ OtherRelease
    \/ StopCall
    \/ StopFinish
    \/ StartPersona

\* A handler of inbound events while an administrator switches the persona
\* off and on again; the loop sleeps.
SpecStop == Init /\ [][StopNext]_vars

\* the documents earlier runs have left: none, one cut short by a crash, or a
\* readable one
DocInit ==
    /\ file \in [Chats -> {AbsentFile, CorruptFile, PersistedRecord}]
    /\ \A c \in Chats \ StoreChats : file[c] = AbsentFile
    /\ st = [t \in StoreTasks |-> IdleTask]
    /\ EngineInit
    /\ SchedIdle
    /\ RankIdle
    /\ Started
    /\ excluded = {}

DocNext ==
    \/ \E t \in StoreTasks, c \in StoreChats, id \in MsgIds :
          ShouldStore(id) /\ AppendCall(t, c, FormatMessageData(id, "Contact"))
    \/ \E t \in StoreTasks : AppendLoad(t)
    \/ \E t \in StoreTasks : AppendWrite(t)
    \/ \E c \in StoreChats, title \in Titles : UpdateChatTitle(c, title)
    \/ \E t \in StoreTasks, c \in StoreChats : LoadCall(t, c)
    \/ \E t \in StoreTasks : LoadReturn(t)
    \/ \E t \in StoreTasks : LoadDone(t)

\* Loads, appends and title updates on the documents earlier runs have left.
SpecDoc == DocInit /\ [][DocNext]_vars

\* The initiation loop beside a handler that receives keyword messages, so
\* that threads come under cooldown and leave it as the clock advances.
SpecEnum == SchedInit /\ [][EnumNext]_vars

\* The permit pool: ordinary events of the threads in Chats compete for the
\* permits with the handlers of other threads.
SpecPool == Init /\ [][PoolNext]_vars

SendInit ==
    /\ file \in [Chats -> {AbsentFile, CorruptFile, PersistedRecord}]
    /\ \A c \in Chats \ StoreChats : file[c] = AbsentFile
    /\ st = [t \in StoreTasks |-> IdleTask]
    /\ EngineInit
    /\ SchedIdle
    /\ RankIdle
    /\ Started
    /\ excluded = {}

SendNext ==
    \/ \E c \in StoreChats, text \in BOOLEAN : SendCall(c, text)
    \/ \E known \in BOOLEAN : SendResolved(known)
    \/ SendTyped
    \/ \E outcome \in TransportOutcomes : SendTransport(outcome)
    \/ SendFloodSlept
    \/ SendCancelled
    \/ \E fate \in CallerFates : SendReturn(fate)
    \/ \E t \in StoreTasks : AppendLoad(t)
    \/ \E t \in StoreTasks : AppendWrite(t)

\* the event loop runs every task that is ready: a save task that was created
\* gets its turns
SaveTasksRun ==
    \A t \in StoreTasks : WF_vars(AppendLoad(t)) /\ WF_vars(AppendWrite(t))

\* Calls of _send_message_with_delay, one after the other, with the save
\* tasks they leave behind.
SpecSend == SendInit /\ [][SendNext]_vars /\ SaveTasksRun

FaultNext ==
    \/ \E h \in Handlers, c \in Chats, ev \in Events :
          HandleNewMessage(h, c, ev, CooldownMinHours)
    \/ \E h \in Handlers, ok \in BOOLEAN : DeflectGenerated(h, ok)
    \/ \E h \in Handlers, outcome \in SendOutcomes : DeflectSent(h, outcome)
    \/ \E h \in Handlers : NotifyOperator(h)
    \/ \E h \in Handlers : AcquirePermit(h)
    \/ \E h \in Handlers : ReplyLoaded(h)
    \/ \E h \in Handlers, ok \in BOOLEAN : PhotoDownloaded(h, ok)
    \/ \E h \in Handlers, ok \in BOOLEAN : ReplyGenerated(h, ok)
    \/ \E h \in Handlers, outcome \in SendOutcomes : ReplySent(h, outcome)
    \/ \E h \in Handlers : ResponseTimeout(h)
    \/ \E h \in Handlers : HandlerRaised(h)

\* The engine when the awaits of a handler may raise.
SpecFault == Init /\ [][FaultNext]_vars

GenNext ==
    \/ \E kind \in PromptKinds : GenCall(kind)
    \/ \E outcome \in ProviderOutcomes : GenProvider(outcome)
    \/ GenSlept
    \/ GenReturn

\* Calls of generate_response with every sequence of provider outcomes.
SpecGen == Init /\ [][GenNext]_vars

\* the module after construction: no own id yet, the persona not running, the
\* setting persona_active as the settings file has it
LoopsInit ==
    /\ StoreInit
    /\ now = 0
    /\ det = [c \in Chats |-> 0]
    /\ cool = [c \in Chats |-> NoTime]
    /\ grp = [c \in Chats |-> 0]
    /\ permits = MAX_CONCURRENT_RESPONSES
    /\ others = 0
    /\ instr = TRUE
    /\ hs = [h \in Handlers |-> DoneHandler]
    /\ last = NoEvent
    /\ sd = IdleSend
    /\ ai = IdleGen
    /\ SchedIdle
    /\ RankIdle
    /\ excluded = {}
    /\ running = FALSE
    /\ stop = "none"
    /\ lp \in {[NoLoops EXCEPT !.active = a] : a \in BOOLEAN}

LoopsNext ==
    \/ start_persona
    \/ set_client_ready
    \/ \E k \in StopCallers : stop_persona(k)
    \/ \E k \in StopCallers : stop_persona_resumed(k)
    \/ \E t \in LoopTasks : LoopCancelled(t)
    \/ \E t \in LoopTasks : LoopExits(t)

\* Calls of start_persona and stop_persona and the loop tasks.
SpecLoops == LoopsInit /\ [][LoopsNext]_vars

CollectNext ==
    \/ \E c \in StoreChats, id \in MsgIds :
          ShouldStore(id) /\ AppendUnsuspended(c, FormatMessageData(id, "Contact"))
    \/ \E c \in StoreChats, title \in Titles : UpdateChatTitle(c, title)
    \/ \E t \in StoreTasks, c \in StoreChats, title \in Titles : CollectCall(t, c, title)
    \/ \E t \in StoreTasks : CollectLoad(t)
    \/ \E t \in StoreTasks : CollectTitle(t)
    \/ \E t \in StoreTasks, ids \in SUBSET MsgIds : CollectIter(t, ids)
    \/ \E t \in StoreTasks : CollectSave(t)

\* History collections next to appends that run in one piece and title
\* updates.
SpecCollect == Init /\ [][CollectNext]_vars

CoolNext ==
    \/ \E h \in Handlers, c \in StoreChats, ev \in Events,
          d \in CooldownMinHours..CooldownMaxHours : HandleNewMessage(h, c, ev, d)
    \/ \E h \in Handlers, ok \in BOOLEAN : DeflectGenerated(h, ok)
    \/ \E h \in Handlers, outcome \in SendOutcomes : DeflectSent(h, outcome)
    \/ \E h \in Handlers : NotifyOperator(h)
    \/ \E h \in Handlers : AcquirePermit(h)
    \/ \E h \in Handlers : ReplyLoaded(h)
    \/ \E h \in Handlers, ok \in BOOLEAN : PhotoDownloaded(h, ok)
    \/ \E h \in Handlers, ok \in BOOLEAN : ReplyGenerated(h, ok)
    \/ \E h \in Handlers, outcome \in SendOutcomes : ReplySent(h, outcome)
    \/ StopCall
    \/ StopFinish
    \/ StartPersona
    \/ Tick

\* Concurrent events of one thread, the clock, and an administrator who
\* switches the persona off and on again.
SpecCool == Init /\ [][CoolNext]_vars

IgnoreInit ==
    /\ StoreInit /\ EngineInit /\ SchedIdle /\ RankIdle /\ Started
    /\ excluded \in SUBSET ExcludableChats

IgnoreNext ==
    \/ \E c \in Chats, ev \in Events, d \in CooldownMinHours..CooldownMaxHours,
          sender \in Senders : OnNewMessage(1, c, ev, d, sender)
    \/ \E ok \in BOOLEAN : DeflectGenerated(1, ok)
    \/ \E outcome \in SendOutcomes : DeflectSent(1, outcome)
    \/ NotifyOperator(1)
    \/ AcquirePermit(1)
    \/ ReplyLoaded(1)
    \/ \E ok \in BOOLEAN : PhotoDownloaded(1, ok)
    \/ \E ok \in BOOLEAN : ReplyGenerated(1, ok)
    \/ \E outcome \in SendOutcomes : ReplySent(1, outcome)
    \/ StopCall
    \/ StopFinish
    \/ StartPersona
    \/ Tick

\* A handler of inbound events of every sender, with excluded threads, while
\* an administrator switches the persona off and on again.
SpecIgnore == IgnoreInit /\ [][IgnoreNext]_vars

\* the steps of the loop task itself
LoopStep ==
    \/ SchedWake
    \/ SchedListed
    \/ SchedDialogsFailed
    \/ \E elo \in [PrivateChats -> Scores] : SchedRanked(elo)
    \/ SchedScoringFailed
    \/ SchedRaised
    \/ SchedBackoffSlept
    \/ InitiationGate
    \/ \E ok \in BOOLEAN : InitiationGenerated(ok)
    \/ \E outcome \in SendOutcomes : InitiationSent(outcome)
    \/ InitiationRaised

CycleNext ==
    \/ LoopStep
    \/ \E t \in StoreTasks : AppendLoad(t)
    \/ \E t \in StoreTasks : AppendWrite(t)
    \/ SchedTick

\* every await of the loop task returns or raises in the end
LoopRuns == WF_vars(LoopStep)

\* The initiation loop with the failures a cycle can meet; the persona stays
\* running and the loop task is not cancelled.
SpecCycle == SchedInit /\ [][CycleNext]_vars /\ LoopRuns

OpenNext ==
    \/ SchedWake
    \/ SchedListed
    \/ \E priority \in SUBSET PrivateChats : SchedScored(priority)
    \/ InitiationGate
    \/ \E ok \in BOOLEAN : InitiationGenerated(ok)
    \/ \E outcome \in SendOutcomes : InitiationSent(outcome)
    \/ \E t \in StoreTasks : AppendLoad(t)
    \/ \E t \in StoreTasks : AppendWrite(t)
    \/ SchedTick

\* The initiation loop ranking the threads by the scores of their stored
\* documents.
SpecOpen == SchedInit /\ [][OpenNext]_vars

(***************************************************************************)
(* Claims about the store.                                                 *)
(***************************************************************************)
CountWhere(messages, P(_)) == Cardinality({i \in 1..Len(messages) : P(messages[i])})

IsTextMessage(m) == m.text
IsPhotoMessage(m) == m.photo_attached

NoDuplicateIds(messages) ==
    \A i, j \in 1..Len(messages) :
        messages[i].message_id = messages[j].message_id => i = j

\* C1: in every state reached by concurrently running appends (and the other
\* store operations), the persisted record of every thread has a text counter
\* equal to the number of stored messages with text, a photo counter equal to
\* the number of stored messages with a photo, and no message id twice.
C1_CountersMatchMessages ==
    \A c \in Chats :
        file[c].kind = "ok" =>
            /\ file[c].stats["text"] = CountWhere(file[c].messages, IsTextMessage)
            /\ file[c].stats["photo"] = CountWhere(file[c].messages, IsPhotoMessage)
            /\ NoDuplicateIds(file[c].messages)

\* C1 witness: two appends of one thread overlap: one has written its message
\* while the other, which read before that write, still holds its stale copy.
C1_Witness ==
    \E t \in StoreTasks :
        /\ st[t].pc = "a_write"
        /\ file[st[t].chat].kind = "ok"
        /\ \E i \in 1..Len(file[st[t].chat].messages) :
              /\ file[st[t].chat].messages[i].photo_attached
              /\ ~HasMessageId(st[t].hist.messages,
                               file[st[t].chat].messages[i].message_id)

OnCooldown(c) == cool[c] # NoTime /\ now < cool[c]

\* the thread has a cooldown-until time that has been reached
CooldownOver(c) == cool[c] # NoTime /\ now >= cool[c]

\* the step is the receipt of event ev of thread c by handler h
Receives(h, c, ev) == \E d \in CooldownMinHours..CooldownMaxHours : HandleNewMessage(h, c, ev, d)

\* the hits of thread c that count when the next event arrives
HitsSoFar(c) == IF CooldownOver(c) THEN 0 ELSE det[c]

\* C3: with K = 3, a keyword message that is the 1st, 2nd or 3rd hit of an
\* unsuppressed thread raises the detection counter to 1, 2 or 3, leaves the
\* thread unsuppressed and leads to exactly one deflection send (of the
\* generated text, or of a canned reply when no text was generated); the 4th
\* hit sets cooldown-until in the future, sends no reply and ends with the
\* operator notification.
C3_DetectionThreshold ==
    [][\A h \in Handlers :
         /\ \A c \in Chats :
              (Receives(h, c, "kw") /\ ~OnCooldown(c)) =>
                 /\ det'[c] = HitsSoFar(c) + 1
                 /\ det'[c] <= AI_DETECTION_ATTEMPTS + 1
                 /\ det'[c] <= AI_DETECTION_ATTEMPTS =>
                      /\ cool'[c] = NoTime
                      /\ hs'[h].chat = c /\ hs'[h].route = "deflect"
                      /\ hs'[h].pc \in {"d_gen", "d_send"}
                 /\ det'[c] = AI_DETECTION_ATTEMPTS + 1 =>
                      /\ cool'[c] # NoTime /\ cool'[c] > now
                      /\ hs'[h].chat = c /\ hs'[h].route = "suppress"
                      /\ hs'[h].pc = "d_notify" /\ hs'[h].sends = 0 /\ hs'[h].gens = 0
         /\ hs[h].pc = "d_gen" => hs[h].route = "deflect" /\ hs[h].sends = 0
         /\ hs[h].pc = "d_send" =>
              hs[h].route = "deflect" /\ hs[h].sends = 1 /\ hs[h].reply \in {"generated", "canned"}
         /\ (hs[h].route = "deflect" /\ hs'[h].pc = "done") => hs[h].pc = "d_send"
         /\ (hs[h].pc = "d_gen" /\ hs'[h] # hs[h]) => hs'[h].pc = "d_send"
         /\ (hs[h].route = "suppress" /\ hs'[h] # hs[h]) =>
              NotifyOperator(h) /\ hs[h].sends = 0 /\ hs[h].gens = 0
      ]_vars

\* the 4th keyword message of a thread has just started its cooldown
C3_Witness ==
    /\ last.what = "suppress" /\ last.hit = AI_DETECTION_ATTEMPTS + 1
    /\ OnCooldown(last.chat)
    /\ \E h \in Handlers : hs[h].pc = "d_notify" /\ hs[h].chat = last.chat

\* C4: an inbound event of a thread on cooldown changes nothing: no counter
\* (detection or group), no cooldown, no permit, and no handler starts, so
\* there is no detection check, generation, send or store append for it.
C4_SuppressedIgnored ==
    [][\A h \in Handlers, c \in Chats, ev \in Events :
         (OnCooldown(c) /\ Receives(h, c, ev)) =>
            UNCHANGED <<det, cool, grp, permits, others, hs, file, st>>
      ]_vars

\* a keyword message has just been ignored on a thread on cooldown
C4_Witness ==
    /\ last.what = "ignored" /\ OnCooldown(last.chat)
    /\ det[last.chat] = AI_DETECTION_ATTEMPTS + 1

\* C5: a cooldown is cleared only by an event of its own thread that arrives
\* when cooldown-until has been reached; that event clears cool and det and is
\* then handled as in NORMAL (a keyword message counts as hit 1 and is
\* deflected, any other event goes on to the permit).  No step without an
\* event of the thread (a clock tick, another thread's event) clears it.
C5_LazyExpiry ==
    [][\A c \in Chats :
         /\ (cool[c] # NoTime /\ cool'[c] = NoTime) =>
              /\ now >= cool[c]
              /\ \E h \in Handlers, ev \in Events : Receives(h, c, ev)
         /\ \A h \in Handlers :
              /\ (CooldownOver(c) /\ Receives(h, c, "kw")) =>
                   /\ cool'[c] = NoTime /\ det'[c] = 1
                   /\ hs'[h].route = "deflect"
              /\ \A ev \in Events \ {"kw"} :
                   (CooldownOver(c) /\ Receives(h, c, ev)) =>
                      /\ cool'[c] = NoTime /\ det'[c] = 0
                      /\ hs'[h].pc = "acquire"
      ]_vars

\* a keyword message has just cleared an elapsed cooldown and counts as hit 1
C5_Witness ==
    /\ last.what = "deflect" /\ last.expired /\ last.hit = 1
    /\ cool[last.chat] = NoTime /\ det[last.chat] = 1

\* the handler is generating or sending
InGenerateSend(h) == hs[h].pc \in {"d_gen", "d_send", "r_load", "r_photo", "r_gen", "r_send"}

\* C6 (as claimed): every generate+send in flight holds a permit, and there
\* are never more of them than permits in the pool.
C6_GenerateSendHoldsPermit ==
    /\ \A h \in Handlers : InGenerateSend(h) => hs[h].permit
    /\ Cardinality({h \in Handlers : InGenerateSend(h)}) + others <= MAX_CONCURRENT_RESPONSES

\* C7: an event that waits for a permit while none is free can only be
\* dropped: its handler ends having generated and sent nothing, and the group
\* counter, the detection state and the pool are left as they were.
C7_DroppedOnTimeout ==
    [][\A h \in Handlers :
         (hs[h].pc = "acquire" /\ permits = 0 /\ hs'[h] # hs[h]) =>
            /\ hs'[h] = DoneHandler
            /\ hs[h].gens = 0 /\ hs[h].sends = 0
            /\ UNCHANGED <<grp, det, cool, permits, others, file, st>>
      ]_vars

\* an event has just been dropped while the pool was exhausted
C7_Witness ==
    /\ last.what = "dropped" /\ permits = 0
    /\ \A h \in Handlers : hs[h].chat # last.chat

\* C8 (as claimed): a generate+send that was triggered never ends without a
\* send attempt.
C8_SendAlwaysAttempted ==
    [][\A h \in Handlers :
         (hs[h].route = "reply" /\ hs'[h].pc = "done") => hs[h].sends >= 1
      ]_vars

\* ---- ranking and initiation ----

\* the candidate at position i of the list has score x
ScoreAt(i) == rk.elo[rk.ids[i]]

\* the first position of id c in the list
FirstIndex(c) == CHOOSE i \in 1..Len(rk.ids) : rk.ids[i] = c /\ \A j \in 1..(i - 1) : rk.ids[j] # c

\* C9: get_top_chat_for_initiation returns none when the list is empty or no
\* candidate has a score above 0; otherwise it returns a candidate whose score
\* is the maximum over the list, and of the candidates with that score the
\* one that comes first in the list.
C9_TopChatIsFirstMaximum ==
    rk.pc = "returned" =>
        IF \A i \in 1..Len(rk.ids) : ScoreAt(i) <= 0
        THEN rk.top = NoChat
        ELSE /\ \E i \in 1..Len(rk.ids) : rk.ids[i] = rk.top
             /\ \A i \in 1..Len(rk.ids) :
                  /\ ScoreAt(i) <= rk.elo[rk.top]
                  /\ ScoreAt(i) = rk.elo[rk.top] => FirstIndex(rk.top) <= i

\* two different candidates share the maximum, a third one scores less, and
\* the one returned is not the last of the list
C9_Witness ==
    /\ rk.pc = "returned" /\ Len(rk.ids) = 3
    /\ rk.ids[1] # rk.ids[2] /\ rk.ids[2] # rk.ids[3] /\ rk.ids[1] # rk.ids[3]
    /\ ScoreAt(1) < ScoreAt(2) /\ ScoreAt(2) = ScoreAt(3)
    /\ rk.top = rk.ids[2]

\* the thread has stored messages
HasHistory(c) == file[c].kind = "ok" /\ file[c].messages # << >>

\* the hours since the last stored message of the thread
LastMessageAge(c) == now - file[c].messages[Len(file[c].messages)].timestamp

QuietLongEnough(c) == ~HasHistory(c) \/ LastMessageAge(c) >= MIN_TIME_BEFORE_INITIATION_HOURS

SpacedEnough(c) == lastInit[c] = NoTime \/ now - lastInit[c] >= MIN_INTERVAL_BETWEEN_AI_INITIATION

\* C10: _try_initiate_conversation goes on to generate and send an opener
\* only if the thread has no stored messages or its last stored message is at
\* least 12 h old, and the engine has no recorded initiation in the thread or
\* that one is at least 24 h old; a thread whose last message is 2 h old is
\* left alone; when both conditions hold the opener is generated, and it is
\* sent when generation succeeds.  Nothing is sent to a thread for which the
\* conditions were not tested.
C10_InitiationGated ==
    [][/\ (sch.pc = "i_load" /\ sch'.pc = "i_gen") =>
             /\ sch'.chat = sch.chat
             /\ QuietLongEnough(sch.chat) /\ SpacedEnough(sch.chat)
       /\ (sch.pc = "i_load" /\ sch' # sch /\ HasHistory(sch.chat) /\ LastMessageAge(sch.chat) = 2) =>
             sch' = IdleSched
       /\ (sch.pc = "i_load" /\ sch' # sch /\ QuietLongEnough(sch.chat) /\ SpacedEnough(sch.chat)) =>
             sch'.pc = "i_gen"
       /\ (sch.pc # "i_gen" /\ sch'.pc = "i_gen") => sch.pc = "i_load"
       /\ (sch.pc # "i_send" /\ sch'.pc = "i_send") => sch.pc = "i_gen" /\ sch'.chat = sch.chat
       /\ InitiationGenerated(TRUE) => sch'.pc = "i_send"
       /\ (lastInit' # lastInit \/ \E t \in StoreTasks : st[t].pc = "idle" /\ st'[t].pc = "a_load") =>
             sch.pc = "i_send"
    ]_vars

\* an opener is being sent to a thread whose last stored message is at least
\* 12 h old and in which the engine initiated at least 24 h ago
C10_Witness ==
    /\ sch.pc = "i_send"
    /\ HasHistory(sch.chat) /\ LastMessageAge(sch.chat) >= MIN_TIME_BEFORE_INITIATION_HOURS
    /\ lastInit[sch.chat] # NoTime
    /\ now - lastInit[sch.chat] >= MIN_INTERVAL_BETWEEN_AI_INITIATION

(***************************************************************************)
(* Claims about the candidates of an initiation cycle.                     *)
(***************************************************************************)

\* the ids of a candidate list
ListedIn(list) == {list[i] : i \in 1..Len(list)}

\* the dialog is a one-to-one thread with a person other than the account
OneToOne(c) == ~IsGroup(c) /\ c # MeId /\ ~IsBot(c)

\* the thread has a cooldown-until time in the future
SuppressedNow(c) == c \in Chats /\ cool[c] # NoTime /\ now < cool[c]

\* the thread has a cooldown-until entry whose time has been reached
StaleCooldown(c) == c \in Chats /\ cool[c] # NoTime /\ now >= cool[c]

\* C11: the candidate list an initiation cycle hands to the ranking holds
\* only one-to-one threads, never the account's own id, a bot, an excluded id
\* or an id suppressed when the dialogs are listed; a one-to-one thread whose
\* cooldown has run out but whose entry is still there is a candidate.
C11_CandidatesAreEligible ==
    [][SchedListed =>
         /\ \A c \in ListedIn(sch'.eligible) :
              OneToOne(c) /\ c \notin excluded /\ ~SuppressedNow(c)
         /\ instr =>
              \A c \in ListedIn(Dialogs) :
                 (OneToOne(c) /\ c \notin excluded /\ StaleCooldown(c))
                    => c \in ListedIn(sch'.eligible)]_vars

\* a cycle has listed a thread whose run-out cooldown entry is still there,
\* while the dialogs also hold a group, a bot and the account itself
C11_Witness ==
    /\ sch.pc = "rank"
    /\ 1 \in ListedIn(sch.eligible)
    /\ StaleCooldown(1)
    /\ ListedIn(sch.eligible) # ListedIn(Dialogs)

\* the step is the return of the ranking of a cycle
RankingReturns == \E elo \in [PrivateChats -> Scores] : SchedRanked(elo)

\* C12: every cycle that wakes while the persona is active ends with the
\* score cache cleared, so that the ranking of a cycle never takes a score
\* from the cache that an earlier cycle calculated: when the ranking of a
\* cycle returns, the cache held no score before it.
C12_NoScoreFromEarlierCycle ==
    [][RankingReturns => cache = EmptyCache]_vars

\* C13: a call of stop_persona while the loop has an initiation send in
\* flight does not interrupt the send: the loop leaves the send only by the
\* return of _send_message_with_delay, after which a sent message is recorded.
C13_SendRunsToCompletion ==
    [][(sch.pc = "i_send" /\ sch'.pc # "i_send")
          => \E outcome \in SendOutcomes : InitiationSent(outcome)]_vars

\* no thread has runtime state
RuntimeStateEmpty ==
    /\ grp = [c \in Chats |-> 0]
    /\ det = [c \in Chats |-> 0]
    /\ cool = [c \in Chats |-> NoTime]
    /\ lastInit = [c \in Chats |-> NoTime]

\* C14: from the return of stop_persona until the persona is started again
\* the group counters, detection counters, cooldown-until times and
\* last-initiation times of all threads are empty, whatever the handlers in
\* flight at the deactivation do.
C14_StoppedStateStaysEmpty ==
    (~running /\ stop = "none") => RuntimeStateEmpty

(***************************************************************************)
(* Claims about the operations of the store.                               *)
(***************************************************************************)

\* a record with a title, zero counters for the five kinds and no messages
EmptyDefault(r) ==
    /\ r.kind = "ok"
    /\ DOMAIN r.stats = {"text", "photo", "video", "voice", "other_media"}
    /\ \A k \in DOMAIN r.stats : r.stats[k] = 0
    /\ r.messages = << >>

IdStored(messages, id) == id \in {messages[i].message_id : i \in 1..Len(messages)}

\* C16: an append of a message whose id is already in the record of the
\* thread returns without preparing a write and leaves the document, its
\* messages and its counters as they are, so that a second append of a
\* message leaves the record of the first.
C16_AppendIdempotent ==
    [][\A t \in StoreTasks :
          (st[t].pc = "a_load" /\ st'[t].pc # "a_load"
             /\ file[st[t].chat].kind = "ok"
             /\ IdStored(file[st[t].chat].messages, st[t].msg.message_id))
          => (st'[t].pc = "idle" /\ file' = file)]_vars

\* a message is stored once while a second append of it is about to read
C16_Witness ==
    \E t \in StoreTasks :
        /\ st[t].pc = "a_load"
        /\ file[st[t].chat].kind = "ok"
        /\ Len(file[st[t].chat].messages) >= 2
        /\ file[st[t].chat].messages[1].message_id = st[t].msg.message_id

\* C17: update_chat_title on a thread with a readable document leaves the
\* messages and the counters as they are and sets the title; with the title
\* the document already has, nothing is written.
C17_TitleUpdateKeepsRecord ==
    [][\A c \in StoreChats, title \in Titles :
          (UpdateChatTitle(c, title) /\ file[c].kind = "ok") =>
             /\ file'[c].kind = "ok"
             /\ file'[c].messages = file[c].messages
             /\ file'[c].stats = file[c].stats
             /\ file'[c].title = title
             /\ file[c].title = title => file' = file]_vars

\* the title of a document with a message has been replaced
C17_Witness ==
    \E c \in StoreChats :
        /\ file[c].kind = "ok"
        /\ file[c].title = "B"
        /\ file[c].messages = PersistedRecord.messages

\* C18: the messages of every persisted document are in strictly ascending
\* order of message_id, in whatever order ids are appended and after every
\* save of a history collection.
C18_MessagesAscending ==
    \A c \in Chats :
        file[c].kind = "ok" =>
            \A i \in 1..(Len(file[c].messages) - 1) :
                file[c].messages[i].message_id < file[c].messages[i + 1].message_id

(***************************************************************************)
(* Claims about the score.                                                 *)
(***************************************************************************)

\* weight(k) * ln(count + 1), in units of the score
KindTerm(k, count) ==
    (CASE k = "text" -> 5 [] k = "photo" -> 10 [] k = "video" -> 12
       [] k = "voice" -> 15 [] k = "other_media" -> 2) * LnMilli(count + 1)

\* the counters {text: 10}
OnlyTenTexts(stats) == stats = [ZeroStats EXCEPT !["text"] = 10]

ContactMatches(messages) ==
    SumOver({i \in 1..Len(messages) : messages[i].sender # "You" /\ messages[i].text},
            [i \in 1..Len(messages) |-> messages[i].matches])

\* C20: interestBonus is min(100, 5 * matches): 5 * matches up to 20 matches
\* and exactly 100 from 20 matches on, where only the texts of messages that
\* the persona did not send count.
C20_InterestBonusClamped ==
    (el.pc = "e_done" /\ el.rec.messages # << >>) =>
        LET matches == ContactMatches(el.rec.messages)
        IN /\ el.bonus = Min(100 * ScoreUnit, 5 * matches * ScoreUnit)
           /\ matches <= 20 => el.bonus = 5 * matches * ScoreUnit
           /\ matches >= 20 => el.bonus = 100 * ScoreUnit

\* a bonus has been clamped while a text of the persona itself, which also
\* holds interests, was left out
C20_Witness ==
    /\ el.pc = "e_done"
    /\ ContactMatches(el.rec.messages) > 20
    /\ \E i \in 1..Len(el.rec.messages) :
          el.rec.messages[i].sender = "You" /\ el.rec.messages[i].matches > 0
    /\ el.bonus = 100 * ScoreUnit

\* the record with one more message of kind k counted
OneMoreOf(rec, k) == [rec EXCEPT !.stats[k] = @ + 1]

\* C21: raising the count of one kind in the counters of a thread, with the
\* other counts, the stored messages and the priority flag as they are,
\* never lowers the score calculate_elo computes for the thread.
C21_ScoreMonotone ==
    el.pc = "e_done" =>
        \A k \in STATS_KEYS :
            CalculateElo(OneMoreOf(el.rec, k), el.priority) >= el.result

\* a score has been returned that grows when one more voice message is
\* counted, for a thread that already has messages of that kind
C21_Witness ==
    /\ el.pc = "e_done"
    /\ el.rec.messages # << >>
    /\ el.rec.stats["voice"] = 1
    /\ CalculateElo(OneMoreOf(el.rec, "voice"), el.priority) > el.result

\* C22: between two clear_cache calls a score that calculate_elo has
\* computed for a thread is what every later call for the thread returns,
\* without a load of the record: a call that finds a score in the cache
\* returns it and leaves the cache alone; a call that finds none (the first
\* call, and the first after clear_cache) loads the record and computes, and
\* its result is in the cache when it returns; nothing but such a return and
\* clear_cache changes the cache.
C22_CachedUntilCleared ==
    [][
        /\ (el.pc = "idle" /\ el'.pc # "idle") =>
             IF cache[el'.chat] # NoScore
             THEN /\ el'.pc = "e_hit"
                  /\ el'.result = cache[el'.chat]
                  /\ el'.rec = AbsentFile
                  /\ cache' = cache
             ELSE el'.pc = "e_load" /\ cache' = cache
        /\ (el.pc = "e_load" /\ el'.pc # "e_load") =>
             /\ el'.pc = "e_done"
             /\ cache'[el.chat] = el'.result
             /\ \A c \in PrivateChats \ {el.chat} : cache'[c] = cache[c]
        /\ (cache' # cache /\ el.pc # "e_load") =>
             (el.pc = "idle" /\ el'.pc = "idle" /\ cache' = [c \in PrivateChats |-> -1])
    ]_vars

\* a call has returned a score from the cache
C22_Witness ==
    /\ el.pc = "e_hit"
    /\ el.result = cache[el.chat]
    /\ el.result > 0

(***************************************************************************)
(* Claims about ordinary events.                                           *)
(***************************************************************************)

\* the handler is in _generate_and_send_response
InReplyPhase(h) == hs[h].pc \in {"r_load", "r_photo", "r_gen", "r_send"}

\* the permits that handlers of other threads leave to the events of Chats
PoolLeft == 5 - others

C24_GroupCounterBounded ==
    \A c \in Chats : IsGroup(c) => grp[c] <= GroupReplyFrequency

\* C25: an ordinary message of a one-to-one thread that carries text or a
\* photo enters _generate_and_send_response, once, when its handler takes a
\* permit; one that carries neither ends there without generating or sending.
C25_PrivateReplyTriggered ==
    [][\A h \in Handlers :
          (AcquirePermit(h) /\ ~IsGroup(hs[h].chat)) =>
             IF hs[h].content
             THEN /\ hs'[h].pc = "r_load" /\ hs'[h].route = "reply" /\ hs'[h].permit
                  /\ hs[h].route = "ordinary" /\ hs[h].gens = 0 /\ hs[h].sends = 0
                  /\ permits' = permits - 1
             ELSE /\ hs'[h] = DoneHandler
                  /\ hs[h].gens = 0 /\ hs[h].sends = 0
                  /\ permits' = permits
      ]_vars

\* the reply to a photo without text is being generated in a one-to-one
\* thread
C25_Witness ==
    \E h \in Handlers :
        /\ ~IsGroup(hs[h].chat) /\ hs[h].chat # NoChat
        /\ hs[h].photo
        /\ hs[h].pc = "r_gen" /\ hs[h].gens = 1 /\ hs[h].permit

\* a save task of a message of the contact is in flight for the thread
SaveInFlight(c) ==
    \E t \in StoreTasks :
        /\ st[t].pc \in {"a_load", "a_write"}
        /\ st[t].chat = c
        /\ st[t].msg.sender # "You"

\* the record of the thread holds a message that the engine did not send
InboundStored(c) ==
    \E i \in 1..Len(LoadChatHistory(c).messages) :
        LoadChatHistory(c).messages[i].sender # "You"

\* C26: an ordinary inbound message that triggers no reply and that is
\* storable is appended to the store of its thread: when its handler has left
\* the store-only branch, a save task for the thread is in flight or the
\* record of the thread already holds the message.
C26_NonReplyStored ==
    last.what = "store" => SaveInFlight(last.chat) \/ InboundStored(last.chat)

\* the record of the thread holds the message the engine sent under this id
SentStored(c, id) ==
    /\ file[c].kind = "ok"
    /\ \E i \in 1..Len(file[c].messages) :
          /\ file[c].messages[i].message_id = id
          /\ file[c].messages[i].sender = "You"

\* the save task of the sent message has been created and has not run yet
SaveCreated(c, id) ==
    \E t \in StoreTasks :
        st[t].pc = "a_load" /\ st[t].chat = c /\ st[t].msg = SentMessageData(id)

\* C27: a message that send_message returned has its save task, with sender
\* "You" and the id of the sent message, from the step in which the send
\* returned, and the record of the thread comes to hold the message whatever
\* becomes of the caller afterwards.  (The record may lose it again to the
\* stale write of another append: that is the subject of C2.)
C27_SentMessageSaved ==
    /\ [][(sd.pc = "s_send" /\ sd'.result = "true") =>
              \E t \in StoreTasks :
                  /\ st[t].pc = "idle"
                  /\ st'[t].pc = "a_load"
                  /\ st'[t].chat = sd.chat
                  /\ st'[t].msg = SentMessageData(sd'.sent)
         ]_vars
    /\ \A c \in StoreChats, id \in MsgIds :
          (sd.result = "true" /\ sd.chat = c /\ sd.sent = id /\ SaveCreated(c, id))
              ~> SentStored(c, id)

\* the caller was cancelled after a send that returned a message, and the
\* record holds the message
C27_Witness ==
    /\ sd.pc = "idle" /\ sd.fate = "cancelled"
    /\ sd.result = "true" /\ sd.calls = 1
    /\ SentStored(sd.chat, sd.sent)

\* C28: a call of _send_message_with_delay calls send_message at most once
\* and ends with a result, never with an exception other than its caller's
\* cancellation: no send and false for an unresolvable target; one wait, one
\* send call and false after a rate-limit error; false for a recipient that
\* refuses the message; true only with the message the transport returned.
C28_SendAtMostOnce ==
    /\ sd.calls <= 1 /\ sd.waits <= 1
    /\ sd.result \in {"none", "true", "false", "cancelled"}
    /\ sd.pc = "s_done" => sd.result # "none"
    /\ sd.why = "unresolved" => sd.calls = 0 /\ sd.waits = 0 /\ sd.result = "false"
    /\ sd.why = "flood" => sd.calls = 1 /\ sd.waits = 1 /\ sd.result = "false"
    /\ sd.why \in {"refused", "error", "empty"} => sd.result = "false" /\ sd.sent = NoMsg
    /\ sd.result = "true" => sd.calls = 1 /\ sd.waits = 0 /\ sd.sent # NoMsg /\ sd.why = "sent"
    /\ sd.result = "cancelled" => sd.why = "cancelled"

\* a call has ended after a rate-limit error
C28_Witness ==
    /\ sd.pc = "s_done" /\ sd.why = "flood"
    /\ sd.calls = 1 /\ sd.waits = 1 /\ sd.result = "false"

\* the handlers in flight that hold a permit
PermitHolders == {h \in Handlers : hs[h].permit}

\* C29: an exception raised at a stage of the handling of an event stays in
\* the handler of the event: the handler goes on at a point of its normal
\* flow or has returned, a permit it held is back in the pool, the other
\* handlers and the detection counts, cooldowns and group counters of the
\* other threads are as they were, and no permit is ever lost.
C29_ExceptionStaysInHandler ==
    /\ [][\A h \in Handlers :
             HandlerRaised(h) =>
                /\ hs'[h].pc \in {"acquire", "done"}
                /\ IF hs[h].permit
                   THEN hs'[h] = DoneHandler /\ permits' = permits + 1
                   ELSE hs'[h].pc = "acquire" /\ permits' = permits
                /\ \A g \in Handlers \ {h} : hs'[g] = hs[g]
                /\ \A c \in Chats \ {hs[h].chat} :
                      det'[c] = det[c] /\ cool'[c] = cool[c] /\ grp'[c] = grp[c]
         ]_vars
    /\ [](permits + Cardinality(PermitHolders) + others = MAX_CONCURRENT_RESPONSES)

\* the reply of a handler has just raised while the other handler holds a
\* permit for a thread with a detection count
C29_Witness ==
    /\ last.what = "raised"
    /\ \E h, g \in Handlers :
          /\ h # g
          /\ hs[h] = DoneHandler
          /\ hs[g].permit /\ hs[g].chat # last.chat /\ det[hs[g].chat] > 0
    /\ permits = MAX_CONCURRENT_RESPONSES - 1

\* the candidates of the call
Candidates == {rk.ids[i] : i \in 1..Len(rk.ids)}

\* the candidates whose calculation did not raise
Computed == {c \in Candidates : rk.results[c] # Failed}

\* C30: when the calculation of a candidate raises, the candidate counts with
\* score 0 and every other candidate with the score computed for it; the
\* call returns a result: the first candidate with the largest positive
\* computed score, or none when no computed score is positive.
C30_FailedCandidateScoresZero ==
    rk.pc = "returned" =>
        /\ \A c \in Candidates \ Computed : rk.elo[c] = 0
        /\ \A c \in Computed : rk.elo[c] = rk.results[c]
        /\ rk.top \in Candidates \cup {NoChat}
        /\ IF \A c \in Computed : rk.results[c] <= 0
           THEN rk.top = NoChat
           ELSE /\ rk.top \in Computed
                /\ \A c \in Computed :
                     /\ rk.results[c] <= rk.results[rk.top]
                     /\ rk.results[c] = rk.results[rk.top] =>
                           FirstIndex(rk.top) <= FirstIndex(c)

\* the calculation of the first candidate raised and a later candidate with a
\* positive score is returned
C30_Witness ==
    /\ rk.pc = "returned" /\ Len(rk.ids) >= 2
    /\ rk.results[rk.ids[1]] = Failed
    /\ rk.top # NoChat /\ rk.top # rk.ids[1]
    /\ rk.results[rk.top] > 0

\* ---- generation ----

\* C31: generate_response ends with a text or with null after at most three
\* provider calls; a call is repeated only after a transient provider error
\* (a server fault or a rate limit), after a delay twice as long as the one
\* before; a block by the safety filters ends the call with null.
C31_RetryOnlyTransient ==
    /\ ai.calls <= max_retries
    /\ ai.pc = "g_done" => ai.result \in {"text", "null"}
    /\ \A i \in 1..Len(ai.outcomes) :
          /\ i < ai.calls => ai.outcomes[i] = "transient"
          /\ ai.outcomes[i] = "blocked" => i = ai.calls /\ ai.pc = "g_done" /\ ai.result = "null"
    /\ \A i \in 2..Len(ai.delays) : ai.delays[i] = 2 * ai.delays[i - 1]

\* ---- the initiation timestamp ----

\* C37: the time of the last initiation of a thread is set only by a step in
\* which an opener was delivered to the thread: a step that sets it is the
\* return of a send that the transport accepted.
C37_TimestampOnlyOnDelivery ==
    [][\A c \in Chats :
          (lastInit'[c] # lastInit[c] /\ lastInit'[c] # NoTime) =>
              /\ sch.pc = "i_send" /\ sch.chat = c
              /\ InitiationSent("sent")
      ]_vars

(***************************************************************************)
(* Claims about threads without stored history.                            *)
(***************************************************************************)

\* load_chat_history gives no messages for the thread
NoHistory(c) == LoadChatHistory(c).messages = << >>

\* C32: a priority thread without stored history is still a target of an
\* initiation: the ranking returns it when it is the candidate, with the
\* manual boost as its score; the quiet-period test does not end the attempt
\* (only a recent initiation does); the opener is generated from no context
\* messages and, once generated, is sent to that thread.
C32_PriorityThreadWithoutHistory ==
    [][/\ \A priority \in SUBSET PrivateChats : \A c \in PrivateChats \cap Chats :
             (/\ sch.pc = "rank" /\ sch.eligible = <<c>>
              /\ c \in priority /\ NoHistory(c)
              /\ SchedScored(priority)) =>
                 /\ sch'.pc = "i_load" /\ sch'.chat = c
                 /\ cache'[c] = MANUAL_BOOST_VALUE * ScoreUnit
       /\ (sch.pc = "i_load" /\ sch' # sch /\ NoHistory(sch.chat)
                /\ ~InitiatedRecently(sch.chat)) =>
             /\ sch'.pc = "i_gen" /\ sch'.chat = sch.chat
             /\ sch'.context = 0
       /\ (sch.pc = "i_gen" /\ sch.context = 0 /\ InitiationGenerated(TRUE)) =>
             /\ sch'.pc = "i_send" /\ sch'.chat = sch.chat
    ]_vars

\* an opener made from no context is being sent to a thread without stored
\* history, which the ranking returned with the manual boost as its score
C32_Witness ==
    /\ sch.pc = "i_send"
    /\ sch.context = 0
    /\ NoHistory(sch.chat)
    /\ cache[sch.chat] = MANUAL_BOOST_VALUE * ScoreUnit

(***************************************************************************)
(* Claims about the loop tasks.                                            *)
(***************************************************************************)

\* the loop tasks that are alive and have no cancellation pending
Looping == lp.alive \ lp.cancelled

\* C33: at any time at most one initiation loop task is alive (a task whose
\* cancellation is pending is not counted); a persona without a known own id
\* has no loop task and is not running; when the persona is not running and
\* no call of stop_persona is suspended, no loop task is alive.
C33_AtMostOneLoop ==
    /\ Cardinality(Looping) <= 1
    /\ ~lp.me => lp.alive = {} /\ ~running
    /\ (~running /\ \A k \in StopCallers : lp.awaited[k] = NoTask) => Looping = {}

(***************************************************************************)
(* Claims about failures inside a cycle of the initiation loop.            *)
(***************************************************************************)

CycleFailures == {"dialogs", "scoring", "generation", "delivery", "exception"}

\* C34: while the persona stays running and the loop task is not cancelled,
\* the loop task never ends, and after every failure inside a cycle (dialog
\* enumeration, scoring, generation, delivery, an exception nothing else
\* catches) the loop begins another cycle.
C34_LoopSurvivesFailures ==
    /\ [](sch.pc # "stopped")
    /\ \A failure \in CycleFailures :
          (sch.failed = failure) ~> (sch.pc = "dialogs" /\ sch.failed = "none")

\* the loop is in its five-minute sleep after an exception
C34_Witness ==
    /\ sch.pc = "backoff"
    /\ sch.failed = "exception"
    /\ running

(***************************************************************************)
(* Claims about suppression and the messages that go out.                  *)
(***************************************************************************)

\* C35: no message goes out to a thread while the thread is suppressed: when
\* a reply or a deflection has just been sent to a thread, the thread has no
\* cooldown in force.
C35_NoSendWhileSuppressed ==
    last.what = "sent" => ~Suppressed(last.chat)

\* C36: the 60 s timer bounds only the wait for a permit: a handler that
\* holds a permit and is loading the history or waiting for
\* generate_response goes on to its next step (the photo, the generation,
\* the send); it is never ended in between.
C36_TimerBoundsOnlyTheWait ==
    [][\A h \in Handlers :
         /\ (hs[h].pc = "r_gen" /\ hs'[h] # hs[h]) => hs'[h].pc = "r_send"
         /\ (hs[h].pc = "r_load" /\ instr /\ hs'[h] # hs[h]) =>
               hs'[h].pc \in {"r_photo", "r_gen"}
      ]_vars

(***************************************************************************)
(* Claims about the events the handler leaves alone.                       *)
(***************************************************************************)

\* C38: an inbound event received while the persona is not running, or sent
\* by the account itself (or by nobody), or belonging to an excluded thread
\* has no effect: the counters, the cooldowns, the permits, the handlers'
\* generate+send, the store and its tasks all stay as they are.
C38_IgnoredEventHasNoEffect ==
    [][\A c \in Chats, ev \in Events, d \in CooldownMinHours..CooldownMaxHours,
         sender \in Senders :
           (/\ OnNewMessage(1, c, ev, d, sender)
            /\ (~running \/ sender # "Contact" \/ c \in excluded)) =>
               UNCHANGED <<det, cool, grp, permits, hs, file, st, sd, ai, lastInit>>
      ]_vars

\* the handler has just returned from an event of a thread that has a
\* cooldown entry and a detection counter, the persona running
C38_Witness ==
    /\ last.what = "returned"
    /\ running
    /\ cool[last.chat] # NoTime
    /\ det[last.chat] > 0

(***************************************************************************)
(* Claims about the cooldown entries and the detection counters.           *)
(***************************************************************************)

\* C39: a thread that has a cooldown entry has a detection counter above
\* AI_DETECTION_ATTEMPTS; a cooldown entry appears only together with such a
\* counter, and when an entry goes away (expiry, deactivation) the counter
\* starts again in the same step (0, or 1 when the event that meets the
\* expired entry is itself a hit).
C39_CooldownImpliesHits ==
    /\ [](\A c \in Chats : cool[c] # NoTime => det[c] > AI_DETECTION_ATTEMPTS)
    /\ [][\A c \in Chats :
            /\ (cool[c] = NoTime /\ cool'[c] # NoTime) =>
                  /\ det[c] = AI_DETECTION_ATTEMPTS
                  /\ det'[c] = AI_DETECTION_ATTEMPTS + 1
            /\ (cool[c] # NoTime /\ cool'[c] = NoTime) => det'[c] <= 1
         ]_vars

\* the persona has been switched on again after a deactivation that removed
\* a cooldown entry, and a later entry has expired and been cleared by an
\* ordinary event
C39_Witness ==
    /\ last.what = "ordinary" /\ last.expired
    /\ cool[last.chat] = NoTime
    /\ det[last.chat] = 0
    /\ running

(***************************************************************************)
(* Claims about the persisted messages under concurrent store operations.  *)
(***************************************************************************)

\* C40: a message that is in a thread's stored record stays there, with the
\* same content, whatever store operation writes the record next (an
\* append, a title update, the save of a history collection).
C40_PersistedMessagesKept ==
    [][\A c \in Chats :
         file[c].kind = "ok" =>
            \A i \in 1..Len(file[c].messages) :
               \E j \in 1..Len(file'[c].messages) :
                  file'[c].messages[j] = file[c].messages[i]
      ]_vars

====
